---- MODULE Spec2Model ----
(***************************************************************************)
(* The best-first exploration engine of Teros (src/src/engine.rs): the     *)
(* move tree, the frontier heap, one-ply expansion, the commit of a move,  *)
(* the two parallel expansion drivers, the order of Eval, and the          *)
(* sequential and the parallel minimax.                                    *)
(*                                                                         *)
(* The chess rules come from the external crate rust_chess.  The engine    *)
(* only uses a board through generate_moves, make_legal_move, get_turn     *)
(* and is_checkmate, so the rules are replaced here by a small game with   *)
(* the same interface: a board is a pile of stones and the side to move;  *)
(* a move takes one or two stones; the side that has no stone left to      *)
(* take is mated.  Numbers of type NotNan<f32> are integers, and           *)
(* f32::INFINITY is the absorbing value INFINITY.                          *)
(***************************************************************************)
EXTENDS Integers, Sequences, FiniteSets, Bags, TLC

\* ------------------------------------------------------------------ bounds
\* Largest pile a game starts from (the depth of the complete game tree).
MaxPile == 4
\* Largest thread_count handed to multi_thread_think_next_num_moves.
MaxThreads == 2
\* Largest num handed to multi_thread_think_next_num_moves.
MaxNum == 1

\* The expansions the signal-bounded driver counts before it is stopped.
MaxCounter == 1

\* The greatest mate counter of the Eval values compared.
MaxMate == 2

\* The greatest min_depth of the minimax settings.
MaxMinDepth == 3

\* Largest thread_count handed to parallel_eval_and_best_move.
MaxSearchThreads == 3

\* ------------------------------------------------------- the rules' interface
Color == {"White", "Black"}

opposite(color) == IF color = "White" THEN "Black" ELSE "White"

\* ChessMove: "take k stones".  Ord on ChessMove is the order of the integers.
ChessMove == {1, 2}

\* The moves generate_moves yields over all squares for the side to move;
\* they are pseudo-legal: make_legal_move still has to accept them.
generate_moves(board) == ChessMove

\* Rules that accept no move on a pile of one stone.
make_no_move_on_one(board, chess_move) ==
    IF chess_move <= board.pile /\ board.pile # 1
    THEN [ok |-> TRUE,
          board |-> [pile |-> board.pile - chess_move,
                     turn |-> opposite(board.turn)]]
    ELSE [ok |-> FALSE, board |-> board]

\* new_board.make_legal_move(chess_move): Ok(()) and the board after the
\* move, or an error that leaves no child.
make_legal_move(board, chess_move) ==
    IF chess_move <= board.pile
    THEN [ok |-> TRUE,
          board |-> [pile |-> board.pile - chess_move,
                     turn |-> opposite(board.turn)]]
    ELSE [ok |-> FALSE, board |-> board]

\* board.is_checkmate.is_some(): the side to move has no move.
is_checkmate(board) == board.pile = 0

\* ------------------------------------------------------------------ numbers
INFINITY == 1000000

\* a - b on f32 where only a may be infinite.
FSub(a, b) == IF a = INFINITY THEN INFINITY ELSE a - b

\* Ordering of two numbers (NotNan<f32>::cmp, ChessMove::cmp).
NumCmp(a, b) == IF a < b THEN "Less" ELSE IF a > b THEN "Greater" ELSE "Equal"

\* --------------------------------------------------------------------- Eval
\* enum Eval { Numeric(NotNan<f32>), MateIn(Color, i32) }; the derived
\* PartialEq is the equality of these records.
Numeric(value) == [variant |-> "Numeric", value |-> value]

MateIn(color, counter) ==
    [variant |-> "MateIn", color |-> color, counter |-> counter]

\* Option<ChessMove>
None == <<>>

Some(chess_move) == <<chess_move>>

\* An Eval whose mate counter is left as it is.
mate_counter_kept(self) == self

\* Eval::increase_mate_counter
increase_mate_counter(self) ==
    IF self.variant = "Numeric"
    THEN self
    ELSE MateIn(self.color, self.counter + 1)

\* An Ordering that is handed back as it is.
reverse_nothing(ordering) == ordering

\* Ordering::reverse
reverse(ordering) ==
    IF ordering = "Less" THEN "Greater"
    ELSE IF ordering = "Greater" THEN "Less"
    ELSE "Equal"

\* Two mates compared by their counters alone.
MateIn_cmp_by_counter(color1, value1, color2, value2) ==
    NumCmp(value1, value2)

\* Ord for Eval, (MateIn, MateIn)
MateIn_cmp(color1, value1, color2, value2) ==
    IF color1 = "Black" /\ color2 = "White" THEN "Less"
    ELSE IF color1 = "White" /\ color2 = "Black" THEN "Greater"
    ELSE IF color1 = "White" THEN reverse(NumCmp(value1, value2))
    ELSE NumCmp(value1, value2)

\* Ord for Eval, (Numeric, MateIn)
Numeric_cmp_MateIn(color) == IF color = "Black" THEN "Greater" ELSE "Less"

\* Ord for Eval
Eval_cmp(self, other) ==
    IF self.variant = "Numeric" /\ other.variant = "Numeric"
    THEN NumCmp(self.value, other.value)
    ELSE IF self.variant = "MateIn" /\ other.variant = "MateIn"
    THEN MateIn_cmp(self.color, self.counter, other.color, other.counter)
    ELSE IF self.variant = "Numeric"
    THEN Numeric_cmp_MateIn(other.color)
    ELSE reverse(Numeric_cmp_MateIn(self.color))

\* ------------------------------------------------------------ frontier order
\* A key that leaves the depth penalty out.
value_not_accounted_for_distance(self) == self.valued_move.value

\* ValuedMoveLocation::value_accounted_for_distance
value_accounted_for_distance(self) ==
    FSub(self.valued_move.value, self.depth_cost * Len(self.location))

\* derived Ord of ValuedChessMove: value first, then chess_move.
ValuedChessMoveCmp(a, b) ==
    IF NumCmp(a.value, b.value) # "Equal"
    THEN NumCmp(a.value, b.value)
    ELSE NumCmp(a.chess_move, b.chess_move)

\* Ord of VecDeque<ChessMove>: lexicographic, a proper prefix is smaller.
RECURSIVE LocationCmp(_, _)
LocationCmp(a, b) ==
    IF a = <<>> /\ b = <<>> THEN "Equal"
    ELSE IF a = <<>> THEN "Less"
    ELSE IF b = <<>> THEN "Greater"
    ELSE IF NumCmp(Head(a), Head(b)) # "Equal" THEN NumCmp(Head(a), Head(b))
    ELSE LocationCmp(Tail(a), Tail(b))

\* Ord for ValuedMoveLocation.  (When all three keys are equal the code
\* asserts self == other; the entries of one engine share their depth_cost,
\* so equal keys there mean equal entries.)
cmp(self, other) ==
    LET byDistance == NumCmp(value_accounted_for_distance(self),
                             value_accounted_for_distance(other))
        byMove == ValuedChessMoveCmp(self.valued_move, other.valued_move)
    IN  IF byDistance # "Equal" THEN byDistance
        ELSE IF byMove # "Equal" THEN byMove
        ELSE LocationCmp(self.location, other.location)

\* A BinaryHeap is the bag of its entries.
\* BinaryHeap::pop on a non-empty heap yields a greatest entry.
Top(heap) ==
    CHOOSE x \in BagToSet(heap) :
        \A y \in BagToSet(heap) : cmp(x, y) # "Less"

\* A pop that hands out the top entry and leaves it in the heap.
PoppedNothing(heap, x) == heap

\* The heap after pop took one copy of x.
Popped(heap, x) == heap (-) SetToBag({x})

\* An entry that stands for "no entry".
NoEntry == [valued_move |-> [value |-> 0, chess_move |-> 0],
            location |-> <<>>, depth_cost |-> 0]

\* A pop that hands out an entry also when the heap is empty.
pop_or_default(heap) ==
    IF heap = EmptyBag
    THEN [some |-> TRUE, value |-> NoEntry, heap |-> heap]
    ELSE [some |-> TRUE, value |-> Top(heap),
          heap |-> Popped(heap, Top(heap))]

\* BinaryHeap::pop: None on an empty heap, else Some(greatest entry) and the
\* heap without it.
pop(heap) ==
    IF heap = EmptyBag
    THEN [some |-> FALSE, value |-> NoEntry, heap |-> heap]
    ELSE [some |-> TRUE, value |-> Top(heap),
          heap |-> Popped(heap, Top(heap))]

\* A push that drops the entries.
PushNothing(heap, entries) == heap

\* BinaryHeap::push of every element of the Vec entries.
PushAll(heap, entries) ==
    heap (+) [x \in {entries[i] : i \in DOMAIN entries} |->
                 Cardinality({i \in DOMAIN entries : entries[i] = x})]

\* The number of entries of heap that are in the set of entries xs.
RECURSIVE Copies(_, _)
Copies(heap, xs) ==
    IF xs = {} THEN 0
    ELSE LET x == CHOOSE x \in xs : TRUE
         IN  CopiesIn(x, heap) + Copies(heap, xs \ {x})

\* A pop_front that leaves the location as it is.
pop_front_nothing(x) == x

\* x.location.pop_front()
pop_front(x) == [x EXCEPT !.location = Tail(@)]

\* A retain that forgets to compare the first move of the location.
RetainAnyNonEmpty(heap, chess_move) ==
    LET retained == {x \in BagToSet(heap) : Len(x.location) > 0}
    IN  [y \in {pop_front(x) : x \in retained} |->
            Copies(heap, {x \in retained : pop_front(x) = y})]

\* make_move's rebuilding of the heap: retain the entries under chess_move,
\* pop the front of each location and build the heap from that Vec.
RetainUnder(heap, chess_move) ==
    LET retained == {x \in BagToSet(heap) :
                        Len(x.location) > 0 /\ x.location[1] = chess_move}
    IN  [y \in {pop_front(x) : x \in retained} |->
            Copies(heap, {x \in retained : pop_front(x) = y})]

\* ---------------------------------------------------------------- move tree
\* MoveTree { board_state, moves }: moves maps a ChessMove to a MoveTree; the
\* empty map is <<>>.
Leaf(board) == [board_state |-> board, moves |-> <<>>]

\* An emptiness test that takes every node for a leaf.
is_leaf_always(tree) == TRUE

\* MoveTree::is_leaf, and self.move_tree.moves.is_empty() in make_move.
is_leaf(tree) == DOMAIN tree.moves = {}

\* Engine::go_to_location: the node behind the moves of location, or
\* InvalidLocationError.
RECURSIVE go_to_location(_, _)
go_to_location(tree, location) ==
    IF location = <<>> THEN [err |-> "Ok", tree |-> tree]
    ELSE IF Head(location) \in DOMAIN tree.moves
         THEN go_to_location(tree.moves[Head(location)], Tail(location))
         ELSE [err |-> "InvalidLocationError", tree |-> tree]

\* A clone of the child that copies its board and not its children.
get_child_shallow(tree, chess_move) ==
    IF chess_move \in DOMAIN tree.moves
    THEN [err |-> "Ok",
          tree |-> [board_state |-> tree.moves[chess_move].board_state,
                    moves |-> <<>>]]
    ELSE [err |-> "IllegalMoveError", tree |-> tree]

\* A lookup that stays at the root when the move has no child.
get_child_or_stay(tree, chess_move) ==
    IF chess_move \in DOMAIN tree.moves
    THEN [err |-> "Ok", tree |-> tree.moves[chess_move]]
    ELSE [err |-> "Ok", tree |-> tree]

\* self.move_tree.moves.get_mut(chess_move).ok_or(IllegalMoveError)?.clone()
get_child(tree, chess_move) ==
    IF chess_move \in DOMAIN tree.moves
    THEN [err |-> "Ok", tree |-> tree.moves[chess_move]]
    ELSE [err |-> "IllegalMoveError", tree |-> tree]

\* The tree after the node that go_to_location(tree, location) borrows
\* mutably got the children map new_moves.
RECURSIVE SetMovesAt(_, _, _)
SetMovesAt(tree, location, new_moves) ==
    IF location = <<>> THEN [tree EXCEPT !.moves = new_moves]
    ELSE [tree EXCEPT !.moves[Head(location)] =
                          SetMovesAt(@, Tail(location), new_moves)]

\* Engine::evaluate_interest, reduced to what the small game has: INFINITY
\* for a move that mates (the check/mate bonus), else a term of the move on
\* the starting board and a term of the ending board.  The terms are such
\* that entries tie on the derived key, on the raw value and on the move.
evaluate_interest(chess_move, starting_board, ending_board) ==
    IF is_checkmate(ending_board) THEN INFINITY
    ELSE 5 * ((starting_board.pile * chess_move) % 4) + 10 * (ending_board.pile % 2)

\* The children the double loop over the squares builds from a board: one
\* leaf per generated move that make_legal_move accepts.
GeneratedChildren(board) ==
    [chess_move \in {m \in generate_moves(board) : make_legal_move(board, m).ok}
        |-> Leaf(make_legal_move(board, chess_move).board)]

\* BTreeMap::insert of every entry of added into old.
MapInsertAll(old, added) ==
    [m \in (DOMAIN old) \cup (DOMAIN added) |->
        IF m \in DOMAIN added THEN added[m] ELSE old[m]]

\* The keys of a BTreeMap in iteration (ascending) order.
RECURSIVE KeysInOrder(_)
KeysInOrder(keys) ==
    IF keys = {} THEN <<>>
    ELSE LET least == CHOOSE m \in keys : \A n \in keys : m <= n
         IN  <<least>> \o KeysInOrder(keys \ {least})

\* Entries that are all located at the root.
NewEntriesAtRoot(children, board, location, depth_cost) ==
    LET keys == KeysInOrder(DOMAIN children)
    IN  [i \in DOMAIN keys |->
            [valued_move |->
                [value |-> evaluate_interest(keys[i], board,
                                             children[keys[i]].board_state),
                 chess_move |-> keys[i]],
             location |-> <<>>,
             depth_cost |-> depth_cost]]

\* The frontier entries built for the children map children of the node at
\* location whose board is board.
NewEntries(children, board, location, depth_cost) ==
    LET keys == KeysInOrder(DOMAIN children)
    IN  [i \in DOMAIN keys |->
            [valued_move |->
                [value |-> evaluate_interest(keys[i], board,
                                             children[keys[i]].board_state),
                 chess_move |-> keys[i]],
             location |-> location,
             depth_cost |-> depth_cost]]

\* Engine::generate_all_moves on the engine (tree, heap): Err and the engine
\* unchanged when the location does not exist, else the engine with the
\* children inserted and one entry pushed per child of the node.
generate_all_moves(tree, heap, location, depth_cost) ==
    LET target == go_to_location(tree, location)
    IN  IF target.err # "Ok"
        THEN [err |-> target.err, tree |-> tree, heap |-> heap]
        ELSE LET node == target.tree
                 children == MapInsertAll(node.moves,
                                          GeneratedChildren(node.board_state))
             IN  [err |-> "Ok",
                  tree |-> SetMovesAt(tree, location, children),
                  heap |-> PushAll(heap,
                                   NewEntries(children, node.board_state,
                                              location, depth_cost))]

\* ------------------------------------------------------------------- state
VARIABLES
    move_tree,            \* Engine.move_tree
    moves,                \* Engine.moves, the frontier heap
    static_eval_weights,  \* Engine.static_eval_weights (depth_cost only)
    minimax_settings,     \* Engine.minimax_settings (min_depth only)
    engine_lock,          \* the Mutex<Engine> of a parallel driver
    threads,              \* the workers of the parallel driver in progress
    counter,              \* the shared counter of the parallel driver
    keep_going,           \* the flag of the signal-bounded driver
    last,                 \* the last call made on the engine and its result
    test_eval,            \* the Eval values under comparison and the outcome
    threads_left,         \* the Mutex<usize> of a parallel minimax
    calls                 \* the parallel_minimax calls in progress

vars == <<move_tree, moves, static_eval_weights, minimax_settings, engine_lock,
          threads, counter, keep_going, last, test_eval, threads_left, calls>>

engine == <<move_tree, moves, static_eval_weights>>

\* What no call on an engine changes once it is constructed.
fixed == <<minimax_settings, test_eval>>

\* What a parallel minimax works on beside the engine it reads.
search == <<threads_left, calls>>

\* The depth_cost values an engine is constructed with:
\* StaticEvaluationWeights::new() has 15.0, spec scenario E6 uses 25.
DepthCosts == {15, 25}

\* Field by field: the call and its argument, its result ("Running" while a
\* parallel driver has not returned), the entry think_next_move popped, the
\* heap make_move had built before it looked at the new root, the number of
\* expansions (children installed and entries pushed) the call has made, the
\* arguments of the parallel driver, whether one of its workers found the
\* frontier empty, and the tree and the heap of the engine as the
\* count-bounded driver received it, and the pair eval_and_best_move
\* returned.
NoTree == Leaf([pile |-> 0, turn |-> "White"])

NoCall == [op |-> "none", chess_move |-> 0, result |-> "Ok",
           next_move |-> NoEntry, retained |-> EmptyBag, expansions |-> 0,
           thread_count |-> 0, num |-> 0, ran_empty |-> FALSE,
           tree |-> NoTree, heap |-> EmptyBag,
           eval |-> Numeric(0), best_move |-> None, spawned |-> 0]

\* A parallel driver is in progress.
Running == last.result = "Running"

\* No driver is in progress and the process has not been aborted by a panic.
Idle == last.result \notin {"Running", "Panic"}

\* MinimaxSettings::new()
MinimaxSettingsNew == [min_depth |-> 2]

\* No comparison of Eval values is under test.
NoTest == [op |-> "none"]

\* A constructor that leaves out the expansion of the root.
EngineNewUnexpanded(board, weights) ==
    [err |-> "Ok", tree |-> Leaf(board), heap |-> EmptyBag]

\* Engine::new(board, ...)
EngineNew(board, weights) ==
    generate_all_moves(Leaf(board), EmptyBag, <<>>, weights.depth_cost)

\* Engine::new with one of the given minimax settings.
InitWith(settings) ==
    \E pile \in 0..MaxPile, turn \in Color, depth_cost \in DepthCosts :
        LET weights == [depth_cost |-> depth_cost]
            res == EngineNew([pile |-> pile, turn |-> turn], weights)
        IN  /\ move_tree = res.tree
            /\ moves = res.heap
            /\ static_eval_weights = weights
            /\ minimax_settings \in settings
            /\ engine_lock = "free"
            /\ threads = EmptyBag
            /\ counter = 0
            /\ keep_going = TRUE
            /\ last = [NoCall EXCEPT !.op = "new", !.expansions = 1]
            /\ test_eval = NoTest
            /\ threads_left = 0
            /\ calls = <<>>

\* main constructs the engine with MinimaxSettings::new().
Init == InitWith({MinimaxSettingsNew})

\* Engine::get_board
get_board == move_tree.board_state

\* Engine::think_next_move
think_next_move ==
    /\ Idle
    /\ UNCHANGED <<static_eval_weights, engine_lock, threads, counter,
                   keep_going, fixed, search>>
    /\ LET popped == pop(moves)
       IN  IF ~popped.some
           THEN /\ last' = [NoCall EXCEPT !.op = "think_next_move",
                                          !.result = "NoValidMovesErrror"]
                /\ UNCHANGED <<move_tree, moves>>
           ELSE LET next_move == popped.value
                    location == Append(next_move.location,
                                       next_move.valued_move.chess_move)
                    res == generate_all_moves(move_tree, popped.heap, location,
                                              static_eval_weights.depth_cost)
                IN  /\ move_tree' = res.tree
                    /\ moves' = res.heap
                    /\ last' = [NoCall EXCEPT
                                   !.op = "think_next_move",
                                   !.result = res.err,
                                   !.next_move = next_move,
                                   !.expansions =
                                       IF res.err = "Ok" THEN 1 ELSE 0]

\* Engine::think_next_move on an engine with the given tree, heap and
\* depth_cost: the tree and the heap it leaves, and its result.
think_next_move_from(tree, heap, depth_cost) ==
    LET popped == pop(heap)
    IN  IF ~popped.some
        THEN [err |-> "NoValidMovesErrror", tree |-> tree, heap |-> heap]
        ELSE generate_all_moves(
                 tree, popped.heap,
                 Append(popped.value.location,
                        popped.value.valued_move.chess_move),
                 depth_cost)

\* Engine::make_move
make_move(chess_move) ==
    /\ Idle
    /\ UNCHANGED <<static_eval_weights, engine_lock, threads, counter,
                   keep_going, fixed, search>>
    /\ IF get_child(move_tree, chess_move).err # "Ok"
       THEN /\ last' = [NoCall EXCEPT !.op = "make_move",
                                      !.chess_move = chess_move,
                                      !.result = "IllegalMoveError"]
            /\ UNCHANGED <<move_tree, moves>>
       ELSE LET new_root == get_child(move_tree, chess_move).tree
                new_moves == RetainUnder(moves, chess_move)
                res == IF is_leaf(new_root)
                       THEN generate_all_moves(new_root, new_moves, <<>>,
                                               static_eval_weights.depth_cost)
                       ELSE [err |-> "Ok", tree |-> new_root,
                             heap |-> new_moves]
            IN  /\ move_tree' = res.tree
                /\ moves' = res.heap
                /\ last' = [NoCall EXCEPT !.op = "make_move",
                                          !.chess_move = chess_move,
                                          !.retained = new_moves,
                                          !.expansions =
                                              IF is_leaf(new_root) THEN 1 ELSE 0]

\* ------------------------------------------------------------------ minimax
\* Engine::static_evaluation: a mate against the side to move, or a number
\* from what is on the board (here the stones left, counted for the side to
\* move).
static_evaluation(board_state) ==
    IF is_checkmate(board_state)
    THEN MateIn(opposite(board_state.turn), 0)
    ELSE Numeric(IF board_state.turn = "White"
                 THEN 2 * board_state.pile - 3
                 ELSE 3 - 2 * board_state.pile)

\* An initial value that no evaluation improves on.
best_for(maximizing_player) ==
    IF maximizing_player THEN MateIn("White", -1) ELSE MateIn("Black", -1)

\* let mut max_eval = Eval::MateIn(Color::Black, -1) for the maximizing
\* player, let mut min_eval = Eval::MateIn(Color::White, -1) for the other.
worst_for(maximizing_player) ==
    IF maximizing_player THEN MateIn("Black", -1) ELSE MateIn("White", -1)

\* A loop in which a child replaces the best so far also when it is as good.
RECURSIVE best_of_last(_, _, _, _)
best_of_last(keys, evals, best, maximizing_player) ==
    IF keys = <<>>
    THEN best
    ELSE LET chess_move == Head(keys)
             eval == evals[chess_move]
             worse == IF maximizing_player
                      THEN Eval_cmp(eval, best.eval) = "Less"
                      ELSE Eval_cmp(eval, best.eval) = "Greater"
         IN  best_of_last(Tail(keys), evals,
                          IF worse
                          THEN best
                          ELSE [eval |-> eval, best_move |-> Some(chess_move)],
                          maximizing_player)

\* The loop over the children in key order: evals[m] is the evaluation of
\* the child under m; a child replaces the best so far when it is strictly
\* better for the player.
RECURSIVE best_of(_, _, _, _)
best_of(keys, evals, best, maximizing_player) ==
    IF keys = <<>>
    THEN best
    ELSE LET chess_move == Head(keys)
             eval == evals[chess_move]
             better == IF maximizing_player
                       THEN Eval_cmp(eval, best.eval) = "Greater"
                       ELSE Eval_cmp(eval, best.eval) = "Less"
         IN  best_of(Tail(keys), evals,
                     IF better
                     THEN [eval |-> eval, best_move |-> Some(chess_move)]
                     ELSE best,
                     maximizing_player)

\* A value for a leaf above min_depth that is the same for both players.
under_min_depth_zero(maximizing_player) == Numeric(0)

\* Eval::Numeric(f32::INFINITY * (if maximizing_player { 1.0 } else { -1.0 })),
\* what minimax returns for a leaf with a Numeric static evaluation at a
\* depth below min_depth.
under_min_depth(maximizing_player) ==
    Numeric(IF maximizing_player THEN INFINITY ELSE -INFINITY)

\* Engine::minimax
RECURSIVE minimax(_, _, _, _, _)
minimax(tree, depth, min_depth, max_depth, maximizing_player) ==
    IF depth = max_depth \/ is_leaf(tree)
    THEN LET eval == static_evaluation(tree.board_state)
         IN  IF eval.variant = "Numeric" /\ depth < min_depth
             THEN [eval |-> under_min_depth(maximizing_player),
                   best_move |-> None]
             ELSE [eval |-> eval, best_move |-> None]
    ELSE LET evals == [chess_move \in DOMAIN tree.moves |->
                          increase_mate_counter(
                              minimax(tree.moves[chess_move], depth + 1,
                                      min_depth, max_depth,
                                      ~maximizing_player).eval)]
         IN  best_of(KeysInOrder(DOMAIN tree.moves), evals,
                     [eval |-> worst_for(maximizing_player),
                      best_move |-> None],
                     maximizing_player)

\* The max_depth eval_and_best_move passes to minimax.
MAX_DEPTH == 1000

\* Engine::eval_and_best_move
eval_and_best_move ==
    /\ Idle
    /\ LET res == minimax(move_tree, 0, minimax_settings.min_depth, MAX_DEPTH,
                          move_tree.board_state.turn = "White")
       IN  last' = [NoCall EXCEPT !.op = "eval_and_best_move",
                                  !.eval = res.eval,
                                  !.best_move = res.best_move]
    /\ UNCHANGED <<engine, engine_lock, threads, counter, keep_going, fixed, search>>

\* ------------------------------------------------------- parallel minimax
\* usize::MAX.  The checker's integers end at 2^31 - 1, which stands for it:
\* what the model needs of usize::MAX is that no tree exhausts it.
USIZE_MAX == 2147483647

\* a - b on usize: the difference when there is one; on overflow a panic in
\* a build with overflow checks (debug) and the wrapped value in a build
\* without them (release).
usize_sub(a, b) ==
    IF a >= b
    THEN {[panic |-> FALSE, value |-> a - b]}
    ELSE {[panic |-> TRUE, value |-> 0],
          [panic |-> FALSE, value |-> USIZE_MAX - (b - a) + 1]}

\* maximizing_player at a node of the given depth: turn == White at the
\* root, negated with every level.
MaximizingAt(depth) == (get_board.turn = "White") <=> (depth % 2 = 0)

\* An initial value that no evaluation improves on.
best_eval_unbeatable(maximizing_player) ==
    IF maximizing_player THEN MateIn("White", -1) ELSE MateIn("Black", -1)

\* let mut best_eval = Eval::MateIn(Black for the maximizing player, White
\* for the other, -1)
best_eval_new(maximizing_player) ==
    IF maximizing_player THEN MateIn("Black", -1) ELSE MateIn("White", -1)

\* prefer_eval_predicate: x > y for the maximizing player, x < y for the
\* other.
prefer_eval_predicate(x, y, maximizing_player) ==
    IF maximizing_player
    THEN Eval_cmp(x, y) = "Greater"
    ELSE Eval_cmp(x, y) = "Less"

\* The loop over sub_evals: an entry replaces the best so far when the
\* predicate prefers its evaluation.
RECURSIVE best_of_sub_evals(_, _, _)
best_of_sub_evals(sub_evals, best, maximizing_player) ==
    IF sub_evals = <<>>
    THEN best
    ELSE best_of_sub_evals(
             Tail(sub_evals),
             IF prefer_eval_predicate(Head(sub_evals).eval, best.eval,
                                      maximizing_player)
             THEN [eval |-> Head(sub_evals).eval,
                   best_move |-> Some(Head(sub_evals).chess_move)]
             ELSE best,
             maximizing_player)

\* A test that lets a thread be spawned when none is left.
threads_left_not_negative(left) == left >= 0

\* *threads_left >= 1
threads_left_at_least_one(left) == left >= 1

\* A call of parallel_minimax that has entered its loop: the number of
\* children it has dealt with, whether it waits for the call it made itself,
\* the moves of the children it spawned threads for, sub_evals, whether its
\* caller waits for it (it runs in a thread of its own otherwise), and its
\* result once it has returned.
NewCall(inline) ==
    [done |-> 0, waiting |-> FALSE, threads |-> <<>>, sub_evals |-> <<>>,
     inline |-> inline, returned |-> FALSE,
     res |-> [eval |-> Numeric(0), best_move |-> None]]

\* parallel_minimax does not descend at this node: depth == max_depth or
\* the node is a leaf, and the call is minimax's.
IsBottom(location) ==
    \/ Len(location) = MAX_DEPTH
    \/ is_leaf(go_to_location(move_tree, location).tree)

BottomValue(location) ==
    minimax(go_to_location(move_tree, location).tree, Len(location),
            minimax_settings.min_depth, MAX_DEPTH,
            MaximizingAt(Len(location)))

\* The call on the node at location as it stands after it was entered.
EnteredCall(location, inline) ==
    IF IsBottom(location)
    THEN [NewCall(inline) EXCEPT !.returned = TRUE,
                                 !.res = BottomValue(location)]
    ELSE NewCall(inline)

\* A parallel minimax is in progress.
Searching == Running /\ last.op = "parallel_eval_and_best_move"

\* Engine::parallel_eval_and_best_move: the budget is thread_count - 1 and
\* the root call is entered.  The call on a root that is a leaf returns at
\* once.
parallel_eval_and_best_move(thread_count) ==
    /\ Idle
    /\ UNCHANGED <<engine, engine_lock, threads, counter, keep_going, fixed>>
    /\ \E budget \in usize_sub(thread_count, 1) :
          IF budget.panic
          THEN /\ last' = [NoCall EXCEPT
                              !.op = "parallel_eval_and_best_move",
                              !.thread_count = thread_count,
                              !.result = "Panic"]
               /\ UNCHANGED search
          ELSE IF IsBottom(<<>>)
          THEN /\ last' = [NoCall EXCEPT
                              !.op = "parallel_eval_and_best_move",
                              !.thread_count = thread_count,
                              !.eval = BottomValue(<<>>).eval,
                              !.best_move = BottomValue(<<>>).best_move]
               /\ UNCHANGED search
          ELSE /\ last' = [NoCall EXCEPT
                              !.op = "parallel_eval_and_best_move",
                              !.thread_count = thread_count,
                              !.result = "Running"]
               /\ threads_left' = budget.value
               /\ calls' = (<<>> :> NewCall(FALSE))

\* The call on the node at location is in its loop over the children and
\* not waiting for a call it made: its next step is a round of the loop.
InLoop(location) ==
    /\ Searching
    /\ location \in DOMAIN calls
    /\ LET call == calls[location]
           tree == go_to_location(move_tree, location).tree
       IN  /\ ~call.returned
           /\ ~call.waiting
           /\ call.done < Cardinality(DOMAIN tree.moves)

\* One round of the loop over the children in the call on the node at
\* location.  With the budget locked: if a thread is left, a thread is
\* spawned for the child and the budget decremented; otherwise the child is
\* evaluated by a call of this thread, which waits for it unless the child
\* is at the bottom.
VisitChild(location) ==
    /\ InLoop(location)
    /\ LET call == calls[location]
           tree == go_to_location(move_tree, location).tree
           keys == KeysInOrder(DOMAIN tree.moves)
       IN  /\ LET chess_move == keys[call.done + 1]
                  child == Append(location, chess_move)
              IN  IF threads_left_at_least_one(threads_left)
                  THEN /\ threads_left' = threads_left - 1
                       /\ calls' =
                              (child :> EnteredCall(child, FALSE)) @@
                              [calls EXCEPT
                                  ![location].done = @ + 1,
                                  ![location].threads = Append(@, chess_move)]
                       /\ last' = [last EXCEPT !.spawned = @ + 1]
                  ELSE /\ UNCHANGED <<threads_left, last>>
                       /\ IF IsBottom(child)
                          THEN calls' =
                                   [calls EXCEPT
                                       ![location].done = @ + 1,
                                       ![location].sub_evals =
                                           Append(@,
                                               [eval |->
                                                    increase_mate_counter(
                                                        BottomValue(child).eval),
                                                chess_move |-> chess_move])]
                          ELSE calls' =
                                   (child :> EnteredCall(child, TRUE)) @@
                                   [calls EXCEPT ![location].waiting = TRUE]
    /\ UNCHANGED <<engine, engine_lock, threads, counter, keep_going, fixed>>

\* The calls left when the call at location and the calls it joined are
\* gone.
WithoutCallsUnder(location) ==
    [l \in {k \in DOMAIN calls :
               ~(Len(k) >= Len(location)
                   /\ SubSeq(k, 1, Len(location)) = location)}
        |-> calls[l]]

\* The call on the node at location has visited every child and the threads
\* it spawned have returned: thread.join() does not block.
LoopOver(location) ==
    /\ Searching
    /\ location \in DOMAIN calls
    /\ LET call == calls[location]
           tree == go_to_location(move_tree, location).tree
       IN  /\ ~call.returned
           /\ ~call.waiting
           /\ call.done = Cardinality(DOMAIN tree.moves)
           /\ \A i \in DOMAIN call.threads :
                 calls[Append(location, call.threads[i])].returned

\* The end of the call on the node at location: the loop is over, the
\* spawned threads are joined in the order they were spawned in, their
\* results are pushed after those of the call's own evaluations, and the
\* best entry of sub_evals is returned; to the caller that waits for it,
\* as the result of its thread, or as the result of
\* parallel_eval_and_best_move.
ReturnCall(location) ==
    /\ LoopOver(location)
    /\ LET call == calls[location]
           tree == go_to_location(move_tree, location).tree
           joined == [i \in DOMAIN call.threads |->
                         [eval |-> increase_mate_counter(
                                       calls[Append(location,
                                                    call.threads[i])].res.eval),
                          chess_move |-> call.threads[i]]]
           maximizing_player == MaximizingAt(Len(location))
           res == best_of_sub_evals(
                      call.sub_evals \o joined,
                      [eval |-> best_eval_new(maximizing_player),
                       best_move |-> None],
                      maximizing_player)
       IN  /\ IF location = <<>>
              THEN /\ last' = [last EXCEPT !.result = "Ok",
                                           !.eval = res.eval,
                                           !.best_move = res.best_move]
                   /\ calls' = <<>>
                   /\ threads_left' = 0
              ELSE /\ UNCHANGED <<last, threads_left>>
                   /\ LET caller == SubSeq(location, 1, Len(location) - 1)
                          chess_move == location[Len(location)]
                          rest == WithoutCallsUnder(location)
                      IN  IF call.inline
                          THEN calls' =
                                   [rest EXCEPT
                                       ![caller].waiting = FALSE,
                                       ![caller].done = @ + 1,
                                       ![caller].sub_evals =
                                           Append(@,
                                               [eval |->
                                                    increase_mate_counter(
                                                        res.eval),
                                                chess_move |-> chess_move])]
                          ELSE calls' =
                                   (location :>
                                       [call EXCEPT !.returned = TRUE,
                                                    !.res = res,
                                                    !.threads = <<>>,
                                                    !.sub_evals = <<>>])
                                   @@ rest
    /\ UNCHANGED <<engine, engine_lock, threads, counter, keep_going, fixed>>

\* ------------------------------------------------------- parallel drivers
\* A worker thread: where it stands in its loop, the location it popped and
\* the clone of the node it expands.
NewThread == [pc |-> "pop", location |-> <<>>, tree |-> NoTree]

\* The workers are alike and nothing tells them apart, so the Vec threads is
\* kept as the bag of its workers.  Spawned(n) is n new workers, and
\* Moved(ts, t, u) is ts after one worker in state t went to state u.
Spawned(n) == IF n = 0 THEN EmptyBag ELSE [t \in {NewThread} |-> n]

Moved(ts, t, u) == (ts (-) SetToBag({t})) (+) SetToBag({u})

Exited(thread) ==
    thread.pc \in {"break_counter", "break_no_valid_moves", "break_keep_going",
                   "panic"}

\* Engine::multi_thread_think_next_num_moves: the engine moves behind the
\* mutex, the counter starts at 0 and thread_count workers are spawned.
multi_thread_think_next_num_moves(thread_count, num) ==
    /\ Idle
    /\ threads' = Spawned(thread_count)
    /\ counter' = 0
    /\ last' = [NoCall EXCEPT !.op = "multi_thread_think_next_num_moves",
                              !.result = "Running",
                              !.thread_count = thread_count,
                              !.num = num,
                              !.tree = move_tree,
                              !.heap = moves]
    /\ UNCHANGED <<engine, engine_lock, keep_going, fixed, search>>

\* Engine::multi_thread_think_next_moves_until_stop up to stopper.recv():
\* keep_going is true, the counter 0 and thread_count workers are spawned.
multi_thread_think_next_moves_until_stop(thread_count) ==
    /\ Idle
    /\ threads' = Spawned(thread_count)
    /\ counter' = 0
    /\ keep_going' = TRUE
    /\ last' = [NoCall EXCEPT
                   !.op = "multi_thread_think_next_moves_until_stop",
                   !.result = "Running",
                   !.thread_count = thread_count]
    /\ UNCHANGED <<engine, engine_lock, fixed, search>>

UntilStop == last.op = "multi_thread_think_next_moves_until_stop"

\* A location that is not extended by the popped move.
push_back_nothing(location, chess_move) == location

\* location.push_back(next_move.valued_move.chess_move)
push_back(location, chess_move) == Append(location, chess_move)

\* think_next_move_cocurrent, first critical section: pop the top entry, or
\* NoValidMovesErrror, on which the worker of the count-bounded driver
\* leaves its loop and the worker of the signal-bounded driver, which
\* unwraps the result, panics.  The stop signal comes before more than
\* MaxCounter expansions have been counted.
WorkerPop(t) ==
    /\ Running
    /\ t.pc = "pop"
    /\ engine_lock = "free"
    /\ UntilStop /\ keep_going => counter < MaxCounter
    /\ UNCHANGED <<move_tree, static_eval_weights, engine_lock, counter,
                   keep_going, fixed, search>>
    /\ IF ~pop(moves).some
       THEN /\ threads' = Moved(threads, t,
                              [t EXCEPT !.pc = IF UntilStop
                                               THEN "panic"
                                               ELSE "break_no_valid_moves"])
            /\ last' = [last EXCEPT !.ran_empty = TRUE]
            /\ UNCHANGED moves
       ELSE LET next_move == pop(moves).value
            IN  /\ moves' = pop(moves).heap
                /\ threads' = Moved(threads, t,
                       [t EXCEPT
                           !.pc = "clone",
                           !.location =
                               push_back(next_move.location,
                                         next_move.valued_move.chess_move)])
                /\ UNCHANGED last

\* A clone of the root in the place of the node at the location.
clone_of_root(tree) == move_tree

\* go_to_location(&location)?.clone()
clone(tree) == tree

\* generate_all_moves_cocurrent, first critical section: clone the node at
\* the location.  InvalidLocationError is unwrapped by the worker.
WorkerClone(t) ==
    /\ Running
    /\ t.pc = "clone"
    /\ engine_lock = "free"
    /\ UNCHANGED <<engine, engine_lock, counter, keep_going, last, fixed, search>>
    /\ LET target == go_to_location(move_tree, t.location)
       IN  threads' = Moved(threads, t,
                          IF target.err # "Ok"
                          THEN [t EXCEPT !.pc = "panic"]
                          ELSE [t EXCEPT !.pc = "install",
                                         !.tree = clone(target.tree)])

\* A guard that is dropped between the assignment and the pushes.
released_before_push == "free"

\* The guard engine_access taken at line 594 is held over the assignment
\* of line 598 and the pushes, until drop(engine_access) at line 604.
held_until_drop == "locked"

\* generate_all_moves_cocurrent, the work on the clone and the beginning of
\* the second critical section: with the engine locked, the children map
\* built from the cloned board replaces the children of the node at the
\* location.
WorkerInstall(t) ==
    /\ Running
    /\ t.pc = "install"
    /\ engine_lock = "free"
    /\ UNCHANGED <<moves, static_eval_weights, counter, keep_going, last,
                   fixed, search>>
    /\ LET move_map == GeneratedChildren(t.tree.board_state)
           target == go_to_location(move_tree, t.location)
       IN  IF target.err # "Ok"
           THEN /\ threads' = Moved(threads, t, [t EXCEPT !.pc = "panic"])
                /\ UNCHANGED <<move_tree, engine_lock>>
           ELSE /\ move_tree' = SetMovesAt(move_tree, t.location, move_map)
                /\ engine_lock' = held_until_drop
                /\ threads' = Moved(threads, t, [t EXCEPT !.pc = "push"])

\* The end of the second critical section: one entry per generated move is
\* pushed and the guard is dropped.
WorkerPush(t) ==
    /\ Running
    /\ t.pc = "push"
    /\ UNCHANGED <<move_tree, static_eval_weights, counter, keep_going, fixed, search>>
    /\ LET tree == t.tree
           location == t.location
           valued_move_locations ==
               NewEntries(GeneratedChildren(tree.board_state),
                          tree.board_state, location,
                          static_eval_weights.depth_cost)
       IN  /\ moves' = PushAll(moves, valued_move_locations)
           /\ engine_lock' = "free"
           /\ threads' = Moved(threads, t,
                               [t EXCEPT !.pc = "count", !.tree = NoTree])
           /\ last' = [last EXCEPT !.expansions = @ + 1]

\* A test that never finds the counter beyond the number.
counter_never_over_num(counter_lock, my_num) == FALSE

\* *counter_lock > my_num
counter_over_num(counter_lock, my_num) == counter_lock > my_num

\* The count-bounded worker's loop after Ok(_): *counter_lock += 1 and the
\* test against my_num.
WorkerCount(t) ==
    /\ Running
    /\ ~UntilStop
    /\ t.pc = "count"
    /\ counter' = counter + 1
    /\ threads' = Moved(threads, t,
           [t EXCEPT
               !.pc = IF counter_over_num(counter + 1, last.num)
                      THEN "break_counter" ELSE "pop",
               !.location = <<>>])
    /\ UNCHANGED <<engine, engine_lock, keep_going, last, fixed, search>>

\* A counter that is left as it was.
add_assign_nothing(counter_lock) == counter_lock

\* *counter_lock += 1
add_assign(counter_lock) == counter_lock + 1

\* A test of the flag that never sees it cleared.
flag_ignored(keep_going_lock) == FALSE

\* if !*keep_going_lock { break; }
flag_cleared(keep_going_lock) == ~keep_going_lock

\* The signal-bounded worker's loop after the unwrap: with keep_going and
\* the counter locked, *counter_lock += 1 and the test of the flag.
WorkerKeepGoing(t) ==
    /\ Running
    /\ UntilStop
    /\ t.pc = "count"
    /\ counter' = add_assign(counter)
    /\ threads' = Moved(threads, t,
           [t EXCEPT
               !.pc = IF flag_cleared(keep_going) THEN "break_keep_going"
                                                 ELSE "pop",
               !.location = <<>>])
    /\ UNCHANGED <<engine, engine_lock, keep_going, last, fixed, search>>

\* The signal-bounded driver: stopper.recv() returns and, with keep_going
\* locked, the flag is cleared.
Stop ==
    /\ Running
    /\ UntilStop
    /\ keep_going
    /\ keep_going' = FALSE
    /\ UNCHANGED <<engine, engine_lock, threads, counter, last, fixed, search>>

\* The driver joins the workers one after the other and takes the engine
\* back.  The join of a worker that panicked makes join().unwrap() panic in
\* the driver, whatever the workers after it in the Vec are doing; the
\* signal-bounded driver joins after it has cleared the flag.
JoinAll ==
    /\ Running
    /\ ~Searching
    /\ UntilStop => ~keep_going
    /\ \/ \A t \in BagToSet(threads) : Exited(t)
       \/ \E t \in BagToSet(threads) : t.pc = "panic"
    /\ last' = [last EXCEPT !.result =
                   IF \E t \in BagToSet(threads) : t.pc = "panic"
                   THEN "Panic" ELSE "Ok"]
    /\ threads' = EmptyBag
    /\ UNCHANGED <<engine, engine_lock, counter, keep_going, fixed, search>>

\* -------------------------------------------------------------- the locks
\* The same threads with the acquisition of a mutex as a step of its own
\* wherever a thread asks for a mutex while it holds another one or while
\* the thread it has spawned asks for the one it holds.  A mutex is held by
\* the thread whose position says so, and a thread that asks for a held
\* mutex cannot take its step.

\* The workers of the signal-bounded driver that hold keep_going_lock and
\* are about to lock the counter.
KeepGoingHolders == {t \in BagToSet(threads) : t.pc = "lock_counter"}

\* let keep_going_lock = my_keep_going.lock().unwrap()
WorkerLockKeepGoing(t) ==
    /\ Running
    /\ UntilStop
    /\ t.pc = "count"
    /\ KeepGoingHolders = {}
    /\ threads' = Moved(threads, t, [t EXCEPT !.pc = "lock_counter"])
    /\ UNCHANGED <<engine, engine_lock, counter, keep_going, last, fixed,
                   search>>

\* let mut counter_lock = my_counter.lock().unwrap(), the increment and the
\* test of the flag; both guards are dropped at the end of the loop body.
WorkerLockCounter(t) ==
    /\ Running
    /\ UntilStop
    /\ t.pc = "lock_counter"
    /\ counter' = add_assign(counter)
    /\ threads' = Moved(threads, t,
           [t EXCEPT
               !.pc = IF flag_cleared(keep_going) THEN "break_keep_going"
                                                 ELSE "pop",
               !.location = <<>>])
    /\ UNCHANGED <<engine, engine_lock, keep_going, last, fixed, search>>

\* The driver's keep_going.lock().unwrap() after stopper.recv(), the
\* assignment and the drop.
StopLocking == KeepGoingHolders = {} /\ Stop

\* A guard on the budget that is still held when the call evaluates a child
\* itself.
held_over_call == FALSE

\* drop(threads_left) before the call that evaluates the child in this
\* thread.
dropped_before_call == TRUE

\* The call has spawned a thread for a child and not yet decremented the
\* budget and dropped its guard.
Spawning(call) == Len(call.threads) + Len(call.sub_evals) > call.done

\* The calls that hold the guard threads_left.
BudgetHolders ==
    {l \in DOMAIN calls :
        \/ Spawning(calls[l])
        \/ calls[l].waiting /\ ~dropped_before_call}

\* threads_left_arc.lock().unwrap() with a thread left: thread::spawn for
\* the child, whose call starts while the guard is held.
SpawnChild(location) ==
    /\ InLoop(location)
    /\ BudgetHolders = {}
    /\ threads_left_at_least_one(threads_left)
    /\ LET call == calls[location]
           tree == go_to_location(move_tree, location).tree
           keys == KeysInOrder(DOMAIN tree.moves)
       IN  /\ LET chess_move == keys[call.done + 1]
                  child == Append(location, chess_move)
              IN  calls' =
                      (child :> EnteredCall(child, FALSE)) @@
                      [calls EXCEPT
                          ![location].threads = Append(@, chess_move)]
    /\ UNCHANGED <<engine, engine_lock, threads, counter, keep_going, last,
                   fixed, threads_left>>

\* *threads_left -= 1; drop(threads_left); threads.push(thread)
SpawnedChild(location) ==
    /\ Searching
    /\ location \in DOMAIN calls
    /\ Spawning(calls[location])
    /\ threads_left' = threads_left - 1
    /\ calls' = [calls EXCEPT ![location].done = @ + 1]
    /\ last' = [last EXCEPT !.spawned = @ + 1]
    /\ UNCHANGED <<engine, engine_lock, threads, counter, keep_going, fixed>>

\* threads_left_arc.lock().unwrap() with no thread left: the round of the
\* loop in which the call evaluates the child itself.
EvaluateChild(location) ==
    /\ BudgetHolders = {}
    /\ ~threads_left_at_least_one(threads_left)
    /\ VisitChild(location)

\* A step of a thread of a driver or of a parallel minimax, or of the
\* driver that has spawned them.
ThreadStep ==
    \/ \E t \in BagToSet(threads) :
           \/ WorkerPop(t)
           \/ WorkerClone(t)
           \/ WorkerInstall(t)
           \/ WorkerPush(t)
           \/ WorkerCount(t)
           \/ WorkerLockKeepGoing(t)
           \/ WorkerLockCounter(t)
    \/ StopLocking
    \/ JoinAll
    \/ \E location \in DOMAIN calls :
           \/ SpawnChild(location)
           \/ SpawnedChild(location)
           \/ EvaluateChild(location)
           \/ ReturnCall(location)

\* ---------------------------------------------------------- Eval under test
\* The Eval values compared: numbers with both infinities, and mates of both
\* colours with counters from the -1 of minimax's initial values on.
MateCounters == -1 .. MaxMate

EvalValues ==
    {Numeric(value) : value \in {-INFINITY, -1, 0, 1, INFINITY}}
        \cup {MateIn(color, n) : color \in Color, n \in MateCounters}

\* Three Eval values, not yet compared; no engine is at work.
InitEval ==
    /\ \E a, b, c \in EvalValues :
           test_eval = [op |-> "values", a |-> a, b |-> b, c |-> c]
    /\ move_tree = NoTree
    /\ moves = EmptyBag
    /\ static_eval_weights = [depth_cost |-> 15]
    /\ minimax_settings = MinimaxSettingsNew
    /\ engine_lock = "free"
    /\ threads = EmptyBag
    /\ counter = 0
    /\ keep_going = TRUE
    /\ last = NoCall
    /\ threads_left = 0
    /\ calls = <<>>

\* The comparisons of the three values with each other, as cmp and the
\* derived == give them.
Compare ==
    /\ test_eval.op = "values"
    /\ LET a == test_eval.a
           b == test_eval.b
           c == test_eval.c
       IN  test_eval' = [op |-> "cmp", a |-> a, b |-> b, c |-> c,
                         ab |-> Eval_cmp(a, b), ba |-> Eval_cmp(b, a),
                         bc |-> Eval_cmp(b, c), ac |-> Eval_cmp(a, c),
                         eq |-> (a = b)]
    /\ UNCHANGED <<engine, minimax_settings, engine_lock, threads, counter,
                   keep_going, last, search>>

NextEval == Compare

SpecEval == InitEval /\ [][NextEval]_vars

\* The calls main makes on the engine one after the other.
Next ==
    \/ think_next_move
    \/ \E chess_move \in ChessMove \cup {3} : make_move(chess_move)

Spec == Init /\ [][Next]_vars

\* Engines with any of the minimum depths, and the evaluation next to the
\* sequential calls.
MinDepths == -1 .. MaxMinDepth

InitMinimax == InitWith({[min_depth |-> min_depth] : min_depth \in MinDepths})

NextMinimax ==
    \/ think_next_move
    \/ \E chess_move \in ChessMove \cup {3} : make_move(chess_move)
    \/ eval_and_best_move

SpecMinimax == InitMinimax /\ [][NextMinimax]_vars

\* The same with the count-bounded parallel driver and its workers.
NextParallel ==
    \/ think_next_move
    \/ \E chess_move \in ChessMove \cup {3} : make_move(chess_move)
    \/ \E thread_count \in 1..MaxThreads, num \in 0..MaxNum :
           multi_thread_think_next_num_moves(thread_count, num)
    \/ \E t \in BagToSet(threads) :
           \/ WorkerPop(t)
           \/ WorkerClone(t)
           \/ WorkerInstall(t)
           \/ WorkerPush(t)
           \/ WorkerCount(t)
    \/ JoinAll

SpecParallel == Init /\ [][NextParallel]_vars

\* The loop of main when pondering is not limited: the signal-bounded driver
\* runs on the engine as constructed or as the last move left it, and then
\* a move is made.
NextUntilStop ==
    \/ \E chess_move \in ChessMove \cup {3} : make_move(chess_move)
    \/ \E thread_count \in 1..MaxThreads :
           /\ last.op \in {"new", "make_move"} /\ last.result = "Ok"
           /\ multi_thread_think_next_moves_until_stop(thread_count)
    \/ \E t \in BagToSet(threads) :
           \/ WorkerPop(t)
           \/ WorkerClone(t)
           \/ WorkerInstall(t)
           \/ WorkerPush(t)
           \/ WorkerKeepGoing(t)
    \/ Stop
    \/ JoinAll

SpecUntilStop == Init /\ [][NextUntilStop]_vars

\* Every worker and the driver are scheduled as long as they can take a
\* step; the stop signal may never come.
FairUntilStop ==
    /\ SpecUntilStop
    /\ WF_vars(\E t \in BagToSet(threads) :
                   \/ WorkerPop(t)
                   \/ WorkerClone(t)
                   \/ WorkerInstall(t)
                   \/ WorkerPush(t)
                   \/ WorkerKeepGoing(t))
    /\ WF_vars(JoinAll)

\* The loop of main when pondering is limited: the count-bounded driver
\* runs on the engine as constructed or as the last move left it, and then
\* a move is made.
NextNumMoves ==
    \/ \E chess_move \in ChessMove \cup {3} : make_move(chess_move)
    \/ \E thread_count \in 1..MaxThreads, num \in 0..MaxNum :
           /\ last.op \in {"new", "make_move"} /\ last.result = "Ok"
           /\ multi_thread_think_next_num_moves(thread_count, num)
    \/ \E t \in BagToSet(threads) :
           \/ WorkerPop(t)
           \/ WorkerClone(t)
           \/ WorkerInstall(t)
           \/ WorkerPush(t)
           \/ WorkerCount(t)
    \/ JoinAll

SpecNumMoves == Init /\ [][NextNumMoves]_vars

\* Every worker and the joining driver are scheduled as long as they can
\* take a step.
FairNumMoves ==
    /\ SpecNumMoves
    /\ WF_vars(\E t \in BagToSet(threads) :
                   \/ WorkerPop(t)
                   \/ WorkerClone(t)
                   \/ WorkerInstall(t)
                   \/ WorkerPush(t)
                   \/ WorkerCount(t))
    /\ WF_vars(JoinAll)

\* The threads at the level of the locks: a parallel driver runs on the
\* engine as constructed, and the parallel minimax, with a thread_count of
\* at least one, on the engine as think_next_move has expanded it.
NextLocks ==
    \/ last.op \in {"new", "think_next_move"} /\ think_next_move
    \/ \E thread_count \in 1..MaxThreads :
           /\ last.op = "new"
           /\ \/ \E num \in 0..MaxNum :
                     multi_thread_think_next_num_moves(thread_count, num)
              \/ multi_thread_think_next_moves_until_stop(thread_count)
    \/ \E thread_count \in 1..MaxSearchThreads :
           /\ last.op = "think_next_move"
           /\ parallel_eval_and_best_move(thread_count)
    \/ ThreadStep

SpecLocks == Init /\ [][NextLocks]_vars

\* Engines whose min_depth is 0 (no leaf is above it) or the 2 of
\* MinimaxSettings::new().
InitParallelMinimax == InitWith({[min_depth |-> 0], MinimaxSettingsNew})

\* The calls of a program that evaluates the tree it has built, with the
\* sequential and with the parallel minimax.
NextParallelMinimax ==
    \/ think_next_move
    \/ \E chess_move \in ChessMove \cup {3} : make_move(chess_move)
    \/ eval_and_best_move
    \/ \E thread_count \in 0..MaxSearchThreads :
           parallel_eval_and_best_move(thread_count)
    \/ \E location \in DOMAIN calls :
           \/ VisitChild(location)
           \/ ReturnCall(location)

SpecParallelMinimax == InitParallelMinimax /\ [][NextParallelMinimax]_vars

\* -------------------------------------------------------------- properties
\* The frontier entries, and what an entry names.
Frontier == BagToSet(moves)

TargetPath(e) == Append(e.location, e.valued_move.chess_move)

\* The moves the rules allow on a board.
LegalMoves(board) == {m \in ChessMove : m <= board.pile}

\* The call that made the last step.
Called(op, result) == last.op = op /\ last.result = result

\* C1: in every state reached by Engine::new, think_next_move and make_move,
\* every frontier entry e names an existing node of the move tree, at
\* e.location ++ [e.move], and that node has no children.
C1_FrontierNamesLeaves ==
    \A e \in Frontier :
        LET target == go_to_location(move_tree, TargetPath(e))
        IN  target.err = "Ok" /\ DOMAIN target.tree.moves = {}

\* C1's case: a commit has kept entries below the new root, next to nodes
\* that are already expanded.
C1_Witness ==
    /\ Called("make_move", "Ok")
    /\ \E e \in Frontier : Len(e.location) >= 1
    /\ \E m \in DOMAIN move_tree.moves : DOMAIN move_tree.moves[m].moves # {}

\* C2: in every state reached by Engine::new, think_next_move and make_move,
\* no two frontier entries have the same (location, move) pair.
C2_NoTwoEntriesNameTheSameNode ==
    \A x \in Frontier :
        /\ CopiesIn(x, moves) = 1
        /\ \A y \in Frontier : TargetPath(x) = TargetPath(y) => x = y

\* C2's case: after a commit, entries of several expanded nodes are in the
\* frontier, two of them with the same move.
C2_Witness ==
    /\ Called("make_move", "Ok")
    /\ \E x, y \in Frontier :
          /\ x.location # y.location
          /\ x.valued_move.chess_move = y.valued_move.chess_move


\* e with chess_move put back in front of its location.
Under(chess_move, e) == [e EXCEPT !.location = <<chess_move>> \o @]

\* The number of entries of the heap whose location starts with chess_move.
EntriesUnder(heap, chess_move) ==
    Copies(heap, {x \in BagToSet(heap) :
                     x.location # <<>> /\ Head(x.location) = chess_move})

\* C3: a successful make_move(m) builds its frontier (before the new root is
\* looked at for an automatic expansion) from exactly the entries of the
\* former frontier whose location starts with m, that first move removed
\* and move, raw value and depth_cost as they were; every other entry is
\* gone.  What an expansion of the new root pushes comes on top of it.
C3_CommitKeepsEntriesUnderMove ==
    [][(Called("make_move", "Ok"))' =>
          LET m == last'.chess_move
              kept == last'.retained
          IN  /\ \A y \in BagToSet(kept) :
                    CopiesIn(y, kept) = CopiesIn(Under(m, y), moves)
              /\ BagCardinality(kept) = EntriesUnder(moves, m)
              /\ kept \sqsubseteq moves'
              /\ last'.expansions = 0 => moves' = kept]_vars

\* C3's case: a commit that keeps some entries and discards others.
C3_Witness ==
    /\ Called("make_move", "Ok")
    /\ last.retained # EmptyBag
    /\ last.expansions = 0
    /\ \E m \in DOMAIN move_tree.moves : DOMAIN move_tree.moves[m].moves # {}

\* C4: after a successful make_move(m) the new root is the former child of
\* the root under m: it has that child's board, which get_board returns, and
\* that child's descendants; nothing else of the former tree is left.  (A
\* child that had no children has become the root expanded one ply, which
\* is C5.)
C4_NewRootIsFormerChild ==
    [][(Called("make_move", "Ok"))' =>
          LET child == move_tree.moves[last'.chess_move]
          IN  /\ last'.chess_move \in DOMAIN move_tree.moves
              /\ get_board' = child.board_state
              /\ DOMAIN child.moves # {} => move_tree' = child
              /\ DOMAIN child.moves = {} =>
                    [move_tree' EXCEPT !.moves = <<>>] = child]_vars

\* C4's case: the committed child had children and grandchildren.
C4_Witness ==
    /\ Called("make_move", "Ok")
    /\ last.expansions = 0
    /\ \E m \in DOMAIN move_tree.moves :
          \E n \in DOMAIN move_tree.moves[m].moves :
              DOMAIN move_tree.moves[m].moves[n].moves # {}

\* The root is expanded one ply and nothing more: one leaf per legal move.
RootExpandedOnePly(tree) ==
    /\ DOMAIN tree.moves = LegalMoves(tree.board_state)
    /\ \A m \in DOMAIN tree.moves :
          /\ DOMAIN tree.moves[m].moves = {}
          /\ tree.moves[m].board_state =
                 [pile |-> tree.board_state.pile - m,
                  turn |-> opposite(tree.board_state.turn)]

\* The heap holds one entry with empty location per child of the root, and
\* no other entry.
OneRootEntryPerChild(tree, heap) ==
    /\ \A m \in DOMAIN tree.moves :
          Copies(heap, {x \in BagToSet(heap) :
                           x.location = <<>> /\ x.valued_move.chess_move = m}) = 1
    /\ BagCardinality(heap) = Cardinality(DOMAIN tree.moves)

\* C5: when make_move(m) leaves a new root without children, exactly one
\* expansion of the new root is made before make_move returns, and the
\* frontier then holds one entry with empty location per child of the new
\* root; when the new root has children, no expansion is made.
C5_CommitExpandsLeafRoot ==
    [][(Called("make_move", "Ok"))' =>
          LET child == move_tree.moves[last'.chess_move]
          IN  IF DOMAIN child.moves = {}
              THEN /\ last'.expansions = 1
                   /\ RootExpandedOnePly(move_tree')
                   /\ OneRootEntryPerChild(move_tree', moves')
              ELSE /\ last'.expansions = 0
                   /\ move_tree' = child
                   /\ moves' = last'.retained]_vars

\* C5's case: the committed child was a leaf with legal moves.
C5_Witness ==
    /\ Called("make_move", "Ok")
    /\ last.expansions = 1
    /\ Cardinality(DOMAIN move_tree.moves) = 2

\* C6: make_move(m) with m not a key of the root's children map returns
\* IllegalMoveError and leaves the move tree and the frontier as they were.
C6_IllegalMoveChangesNothing ==
    [][(last.op = "make_move")' =>
          /\ last'.chess_move \notin DOMAIN move_tree.moves =>
                /\ last'.result = "IllegalMoveError"
                /\ UNCHANGED <<move_tree, moves>>
          /\ last'.result = "IllegalMoveError" =>
                last'.chess_move \notin DOMAIN move_tree.moves]_vars

\* C6's case: an illegal move on an engine with pending entries.
C6_Witness ==
    /\ Called("make_move", "IllegalMoveError")
    /\ \E e \in Frontier : Len(e.location) >= 1

\* C7: right after Engine::new the root is expanded one ply and the frontier
\* holds exactly one entry per child of the root, with empty location and
\* that child's move.
C7_NewExpandsRoot ==
    Called("new", "Ok") =>
        /\ RootExpandedOnePly(move_tree)
        /\ OneRootEntryPerChild(move_tree, moves)
        /\ \A e \in Frontier :
              e.depth_cost = static_eval_weights.depth_cost

\* C7's case: an engine just built on a board with two legal moves.
C7_Witness ==
    /\ Called("new", "Ok")
    /\ Cardinality(DOMAIN move_tree.moves) = 2
    /\ BagCardinality(moves) = 2

\* The order of the frontier as the specification words it: the derived key
\* raw_value - depth_cost * len(location), then the raw value, then the
\* move, then the location.
DerivedKey(e) ==
    IF e.valued_move.value = INFINITY THEN INFINITY
    ELSE e.valued_move.value - e.depth_cost * Len(e.location)

LocationBefore(a, b) ==
    \E i \in 1..(Len(b)) :
        /\ i <= Len(a) + 1
        /\ \A k \in 1..(i - 1) : a[k] = b[k]
        /\ i = Len(a) + 1 \/ a[i] < b[i]

EntryBefore(f, e) ==
    \/ DerivedKey(f) < DerivedKey(e)
    \/ /\ DerivedKey(f) = DerivedKey(e)
       /\ \/ f.valued_move.value < e.valued_move.value
          \/ /\ f.valued_move.value = e.valued_move.value
             /\ \/ f.valued_move.chess_move < e.valued_move.chess_move
                \/ /\ f.valued_move.chess_move = e.valued_move.chess_move
                   /\ LocationBefore(f.location, e.location)

\* Scenario E6 of the specification: two entries with depth_cost 25.
E6First == [valued_move |-> [value |-> 100, chess_move |-> 1],
            location |-> <<1, 1, 1>>, depth_cost |-> 25]

E6Second == [valued_move |-> [value |-> 40, chess_move |-> 1],
             location |-> <<>>, depth_cost |-> 25]

\* C8: think_next_move removes and expands the frontier entry that is the
\* greatest in the order (derived key, raw value, move, location): every
\* other entry comes before it; the entry (raw 40, location of length 0,
\* depth_cost 25) is popped before (raw 100, location of length 3,
\* depth_cost 25).
C8_ThinkPopsGreatestEntry ==
    /\ pop(SetToBag({E6First, E6Second})).value = E6Second
    /\ [][(Called("think_next_move", "Ok"))' =>
            LET e == last'.next_move
                target == go_to_location(move_tree', TargetPath(e))
            IN  /\ e \in Frontier
                /\ \A f \in Frontier \ {e} : EntryBefore(f, e)
                /\ CopiesIn(e, moves') = CopiesIn(e, moves) - 1
                /\ target.err = "Ok"
                /\ DOMAIN target.tree.moves =
                       LegalMoves(target.tree.board_state)]_vars

\* C8's case: think_next_move has popped an entry of finite raw value,
\* although an entry of greater finite raw value at another location was
\* in the frontier, and still is.
C8_Witness ==
    /\ Called("think_next_move", "Ok")
    /\ last.next_move.valued_move.value < INFINITY
    /\ \E f \in Frontier :
          /\ f.location # TargetPath(last.next_move)
          /\ f.valued_move.value < INFINITY
          /\ f.valued_move.value > last.next_move.valued_move.value

\* C9: think_next_move on an empty frontier returns NoValidMovesErrror and
\* leaves the move tree and the frontier as they were.
C9_ThinkOnEmptyFrontier ==
    [][(last.op = "think_next_move")' =>
          /\ moves = EmptyBag =>
                /\ last'.result = "NoValidMovesErrror"
                /\ UNCHANGED <<move_tree, moves>>
          /\ last'.result = "NoValidMovesErrror" => moves = EmptyBag]_vars

\* C9's case: the frontier of a tree with expanded nodes has run empty and
\* think_next_move was called.
C9_Witness ==
    /\ Called("think_next_move", "NoValidMovesErrror")
    /\ DOMAIN move_tree.moves # {}

\* C10: multi_thread_think_next_num_moves(n, count) makes exactly count
\* expansions before all workers have stopped, when no worker found the
\* frontier empty.
C10_ExactlyCountExpansions ==
    (/\ Called("multi_thread_think_next_num_moves", "Ok")
     /\ ~last.ran_empty)
        => last.expansions = last.num

\* ------------------------------------------- properties of the parallel drivers
\* The workers that have popped an entry and not yet installed its children,
\* and the worker that is inside the second critical section.
Expanding == {t \in BagToSet(threads) : t.pc \in {"clone", "install"}}

Pushing == {t \in BagToSet(threads) : t.pc = "push"}

\* The entries of the frontier pushed for the children of the node at
\* location.
EntriesAt(heap, location) == {x \in BagToSet(heap) : x.location = location}

\* C11: under any interleaving of the workers of the parallel driver, in
\* every state in which the engine mutex is free, every frontier entry names
\* an existing node without children and no two frontier entries have the
\* same (location, move) pair.
C11_FrontierSoundUnderWorkers ==
    engine_lock = "free" =>
        \A x \in Frontier :
            LET target == go_to_location(move_tree, TargetPath(x))
            IN  /\ target.err = "Ok"
                /\ DOMAIN target.tree.moves = {}
                /\ CopiesIn(x, moves) = 1
                /\ \A y \in Frontier : TargetPath(y) = TargetPath(x) => y = x

\* C11's case: two workers are expanding different nodes while entries are
\* in the frontier and expansions of this call have been completed.
C11_Witness ==
    /\ last.result = "Running"
    /\ engine_lock = "free"
    /\ \E t, u \in Expanding : t.location # u.location
    /\ Frontier # {}
    /\ last.expansions >= 1

\* C12: an expansion is atomic for the other workers.  In every state in
\* which the engine mutex is free, the node a worker has popped and not yet
\* expanded has no children and no frontier entry is located under it;
\* between two states in which the mutex is free the tree does not change
\* and no entry is added; while the mutex is held nothing but the pushes is
\* done on the engine; and when the mutex is released the node has one
\* child per legal move and the frontier has gained exactly one entry per
\* child, located at the node.
C12_ExpansionIsAtomic ==
    [][/\ engine_lock' = "free" =>
             \A t \in Expanding' :
                 LET target == go_to_location(move_tree', t.location)
                 IN  /\ target.err = "Ok"
                     /\ DOMAIN target.tree.moves = {}
                     /\ EntriesAt(moves', t.location) = {}
       /\ (last.result = "Running" /\ engine_lock = "free"
                                   /\ engine_lock' = "free") =>
             /\ move_tree' = move_tree
             /\ moves' \sqsubseteq moves
       /\ engine_lock = "locked" =>
             /\ move_tree' = move_tree
             /\ moves' = moves \/ engine_lock' = "free"
       /\ (engine_lock = "locked" /\ engine_lock' = "free") =>
             \E t \in Pushing :
                 LET node == go_to_location(move_tree', t.location).tree
                     added == moves' (-) moves
                 IN  /\ Pushing = {t}
                     /\ DOMAIN node.moves = LegalMoves(node.board_state)
                     /\ moves \sqsubseteq moves'
                     /\ BagToSet(added) = EntriesAt(moves', t.location)
                     /\ \A m \in DOMAIN node.moves :
                           Copies(added,
                                  {x \in BagToSet(added) :
                                      x.valued_move.chess_move = m}) = 1
                     /\ BagCardinality(added) = Cardinality(DOMAIN node.moves)
       ]_vars

\* C12's case: a worker has released the mutex after installing the
\* children of a node below the root and pushing their entries, while
\* another worker is between its pop and its installation.
C12_Witness ==
    /\ last.result = "Running"
    /\ engine_lock = "free"
    /\ Expanding # {}
    /\ \E t \in BagToSet(threads) :
          /\ t.pc = "count"
          /\ t.location # <<>>
          /\ EntriesAt(moves, t.location) # {}

\* The signal-bounded driver has cleared keep_going and has not returned.
Stopped == UntilStop /\ Running /\ ~keep_going

\* The number of workers about to pop an entry.
AtPop(ts) == Copies(ts, {t \in BagToSet(ts) : t.pc = "pop"})

\* C13: once the signal-bounded driver has received the stop signal and
\* cleared keep_going, no worker goes back to the pop after a completed
\* expansion, so that every worker completes at most one further expansion,
\* and, under fair scheduling of the workers and the driver, the call
\* returns, unless a worker found the frontier empty.
C13_StoppedDriverReturns ==
    /\ [][Stopped => AtPop(threads') <= AtPop(threads)]_vars
    /\ Stopped ~> (last.result = "Ok" \/ last.ran_empty)

\* C13's case: after the flag was cleared one worker has left its loop and
\* another one is completing the expansion it had begun, with entries left
\* in the frontier.
C13_Witness ==
    /\ Stopped
    /\ ~last.ran_empty
    /\ Frontier # {}
    /\ Expanding # {}
    /\ \E t \in BagToSet(threads) : t.pc = "break_keep_going"

\* C14: the count multi_thread_think_next_moves_until_stop returns is the
\* number of expansions the workers completed during the call, that is the
\* number of nodes whose children were installed and entries pushed.
C14_CountIsExpansions ==
    (UntilStop /\ last.result = "Ok") => counter = last.expansions

\* C14's case: the call has returned after two workers made more expansions
\* than there are workers.
C14_Witness ==
    /\ UntilStop
    /\ last.result = "Ok"
    /\ last.thread_count = 2
    /\ counter >= 3

\* C15: in both parallel drivers a worker whose pop finds the frontier empty
\* leaves its loop without a panic, and the driver joins the workers and
\* returns the engine.
C15_EmptyFrontierExitsQuietly ==
    last.ran_empty =>
        /\ \A t \in BagToSet(threads) : t.pc # "panic"
        /\ last.result \in {"Running", "Ok"}

\* Every node of the tree without children is terminal: the rules give its
\* board no move.
RECURSIVE FullyExplored(_)
FullyExplored(tree) ==
    IF DOMAIN tree.moves = {}
    THEN LegalMoves(tree.board_state) = {}
    ELSE \A m \in DOMAIN tree.moves : FullyExplored(tree.moves[m])

\* The number of workers that left their loop on NoValidMovesErrror.
GaveUp(ts) == Copies(ts, {t \in BagToSet(ts) : t.pc = "break_no_valid_moves"})

\* C16: whenever think_next_move or a worker's think_next_move_cocurrent
\* returns NoValidMovesErrror, the tree has no unexpanded node whose board
\* has a legal move, and no other worker is between its pop and the end of
\* its pushes on a node whose board has a legal move.
C16_NoValidMovesOnlyWhenExplored ==
    [][(\/ (Called("think_next_move", "NoValidMovesErrror"))'
        \/ GaveUp(threads') > GaveUp(threads)) =>
          /\ FullyExplored(move_tree)
          /\ \A t \in Expanding \cup Pushing :
                LegalMoves(go_to_location(move_tree,
                                          t.location).tree.board_state) = {}]_vars

\* K calls of think_next_move one after the other; a call on an empty
\* frontier changes nothing.
RECURSIVE ThinkSequentially(_, _, _, _)
ThinkSequentially(tree, heap, depth_cost, k) ==
    IF k = 0
    THEN [tree |-> tree, heap |-> heap]
    ELSE LET res == think_next_move_from(tree, heap, depth_cost)
         IN  ThinkSequentially(res.tree, res.heap, depth_cost, k - 1)

\* The engine after as many sequential expansions, from the state the
\* count-bounded driver started in, as the driver's workers have made.
SequentialRun ==
    ThinkSequentially(last.tree, last.heap, static_eval_weights.depth_cost,
                      last.expansions)

\* Two trees have the same board at every location they share, and a node
\* that has children in both has the same moves in both.
RECURSIVE Agree(_, _)
Agree(a, b) ==
    /\ a.board_state = b.board_state
    /\ (DOMAIN a.moves # {} /\ DOMAIN b.moves # {}) =>
          /\ DOMAIN a.moves = DOMAIN b.moves
          /\ \A m \in DOMAIN a.moves : Agree(a.moves[m], b.moves[m])

\* C17 as stated: K expansions across the workers of the count-bounded
\* driver leave the tree that K sequential calls of think_next_move leave
\* from the same engine state: the same expanded locations with the same
\* children maps.
C17_ParallelEqualsSequential ==
    Called("multi_thread_think_next_num_moves", "Ok") =>
        move_tree = SequentialRun.tree

\* C17 amended: the tree the workers leave agrees with the tree of as many
\* sequential expansions wherever both have expanded a node, the children
\* being a function of the parent's board; with one worker, and as long as
\* no worker found the frontier empty, tree and frontier are those of the
\* sequential run.  With several workers the expanded locations may differ.
C17_ParallelAgreesWithSequential ==
    Called("multi_thread_think_next_num_moves", "Ok") =>
        /\ Agree(move_tree, SequentialRun.tree)
        /\ last.thread_count = 1 =>
              /\ move_tree = SequentialRun.tree
              /\ moves = SequentialRun.heap

\* C17's case: two workers have expanded nodes below the root that the
\* sequential run of as many expansions does not expand.
C17_Witness ==
    /\ Called("multi_thread_think_next_num_moves", "Ok")
    /\ last.thread_count = 2
    /\ last.expansions >= 2
    /\ move_tree # SequentialRun.tree

\* ------------------------------------------------------- properties of Eval
\* The three values have been compared.
Compared == test_eval.op = "cmp"

\* C18: Eval's cmp is a total order on numbers (with both infinities) and
\* mates (either colour, counters from -1): exactly one of a < b, a == b,
\* b < a holds, cmp(a, b) is the reverse of cmp(b, a), cmp is Equal exactly
\* when a == b, and the order is transitive.
C18_EvalTotalOrder ==
    Compared =>
        LET ab == test_eval.ab
            ba == test_eval.ba
            bc == test_eval.bc
            ac == test_eval.ac
            lt == ab = "Less"
            gt == ba = "Less"
            eq == test_eval.eq
        IN  /\ (lt /\ ~eq /\ ~gt) \/ (~lt /\ eq /\ ~gt) \/ (~lt /\ ~eq /\ gt)
            /\ ab = "Less" <=> ba = "Greater"
            /\ ab = "Greater" <=> ba = "Less"
            /\ ab = "Equal" <=> ba = "Equal"
            /\ ab = "Equal" <=> eq
            /\ ab = "Less" /\ bc = "Less" => ac = "Less"
            /\ ab # "Greater" /\ bc # "Greater" => ac # "Greater"

\* C18's case: a mate for Black, the number -inf and a mate for White with
\* counter -1 have been compared and are in ascending order.
C18_Witness ==
    /\ Compared
    /\ test_eval.a.variant = "MateIn" /\ test_eval.a.color = "Black"
    /\ test_eval.b = [variant |-> "Numeric", value |-> -INFINITY]
    /\ test_eval.c = [variant |-> "MateIn", color |-> "White", counter |-> -1]
    /\ test_eval.ab = "Less" /\ test_eval.bc = "Less"

\* C19: Eval's cmp is the reference order: a mate for White is greater than
\* every number, +inf and -inf included, and every number greater than a
\* mate for Black; of two mates for White the one with the smaller counter
\* is greater, of two mates for Black the one with the greater counter; two
\* numbers compare as numbers.
C19_EvalReferenceOrder ==
    Compared =>
        LET a == test_eval.a
            b == test_eval.b
            greater == test_eval.ab = "Greater"
            white(x) == x.variant = "MateIn" /\ x.color = "White"
            black(x) == x.variant = "MateIn" /\ x.color = "Black"
            number(x) == x.variant = "Numeric"
        IN  /\ white(a) /\ (number(b) \/ black(b)) => greater
            /\ number(a) /\ black(b) => greater
            /\ number(a) /\ white(b) => ~greater
            /\ black(a) /\ (number(b) \/ white(b)) => ~greater
            /\ white(a) /\ white(b) => (greater <=> a.counter < b.counter)
            /\ black(a) /\ black(b) => (greater <=> a.counter > b.counter)
            /\ number(a) /\ number(b) =>
                  /\ greater <=> a.value > b.value
                  /\ test_eval.ab = "Equal" <=> a.value = b.value

\* C19's case: a mate for White in two has been compared with +inf and
\* found greater.
C19_Witness ==
    /\ Compared
    /\ test_eval.a = [variant |-> "MateIn", color |-> "White", counter |-> 2]
    /\ test_eval.b = [variant |-> "Numeric", value |-> INFINITY]
    /\ test_eval.ab = "Greater"

\* ---------------------------------------------------- properties of minimax
\* C20: on an engine whose root has at least one child, whatever the shape
\* of the tree below and whatever min_depth, eval_and_best_move returns
\* Some(m) with m a key of the root's children map.
C20_BestMoveIsRootChild ==
    (Called("eval_and_best_move", "Ok") /\ DOMAIN move_tree.moves # {}) =>
        \E m \in DOMAIN move_tree.moves : last.best_move = <<m>>

\* C20's case: the root has two children, one of them expanded, min_depth
\* is beyond the depth of the tree, and the second move was returned.
C20_Witness ==
    /\ Called("eval_and_best_move", "Ok")
    /\ DOMAIN move_tree.moves = {1, 2}
    /\ \E m \in DOMAIN move_tree.moves : DOMAIN move_tree.moves[m].moves # {}
    /\ minimax_settings.min_depth = 3
    /\ last.best_move = <<2>>

\* The moves at the root after which the opponent is checkmated.
MatingMoves ==
    {m \in DOMAIN move_tree.moves : is_checkmate(move_tree.moves[m].board_state)}

\* C21: if the side to move at the root has a move after which the opponent
\* is checkmated, eval_and_best_move returns MateIn(side to move, 1) and
\* such a move, whatever min_depth is and however the other children have
\* been explored.
C21_MateInOneIsFound ==
    (Called("eval_and_best_move", "Ok") /\ MatingMoves # {}) =>
        /\ last.eval = [variant |-> "MateIn", color |-> get_board.turn,
                        counter |-> 1]
        /\ \E m \in MatingMoves : last.best_move = <<m>>

\* C21's case: the mating move is the second of two moves, the child under
\* the first move has been expanded, and min_depth is beyond the tree.
C21_Witness ==
    /\ Called("eval_and_best_move", "Ok")
    /\ MatingMoves = {2}
    /\ DOMAIN move_tree.moves[1].moves # {}
    /\ minimax_settings.min_depth = 3
    /\ last.best_move = <<2>>

\* The step is a successful think_next_move.
ThinkStep ==
    /\ last'.op = "think_next_move"
    /\ last'.result = "Ok"
    /\ moves' # moves

\* The step is a worker's release of the mutex after its installation and
\* its pushes.
PushStep == engine_lock = "locked" /\ engine_lock' = "free"

\* The node an expansion step has just expanded, in the tree it leaves.
ThoughtNode == go_to_location(move_tree', TargetPath(last'.next_move)).tree

PushedNode(t) == go_to_location(move_tree', t.location).tree

\* C26 as stated: whenever a frontier entry is popped and its target node
\* expanded, by think_next_move or by a parallel worker, the target node is
\* not a leaf afterwards, whatever position it holds.
C26_ExpandedNodeIsNotLeaf ==
    [][/\ ThinkStep => DOMAIN ThoughtNode.moves # {}
       /\ PushStep => \A t \in Pushing : DOMAIN PushedNode(t).moves # {}
      ]_vars

\* C26, amended: after the expansion of a popped entry's target node, by
\* think_next_move or by a parallel worker, the children of the node are
\* exactly the legal moves of its position; the node is not a leaf exactly
\* when its position has a legal move, and the expansion of a node without
\* legal moves leaves it a leaf and pushes no entry.
C26_ExpandedNodeHasLegalMoves ==
    [][/\ ThinkStep =>
             /\ DOMAIN ThoughtNode.moves = LegalMoves(ThoughtNode.board_state)
             /\ LegalMoves(ThoughtNode.board_state) = {} =>
                    /\ is_leaf(ThoughtNode)
                    /\ moves' \sqsubseteq moves
       /\ PushStep =>
             \A t \in Pushing :
                 /\ DOMAIN PushedNode(t).moves =
                        LegalMoves(PushedNode(t).board_state)
                 /\ LegalMoves(PushedNode(t).board_state) = {} =>
                        /\ is_leaf(PushedNode(t))
                        /\ moves' = moves
      ]_vars

\* C26's case: a worker has completed the expansion of a node whose position
\* has no legal move, and the node is a leaf.
C26_Witness ==
    /\ Running
    /\ \E t \in BagToSet(threads) :
          /\ t.pc = "count"
          /\ LET target == go_to_location(move_tree, t.location)
             IN  /\ target.err = "Ok"
                 /\ t.location # <<>>
                 /\ LegalMoves(target.tree.board_state) = {}
                 /\ is_leaf(target.tree)

\* The workers that have popped an entry and not yet released the engine
\* after expanding its target.
Holding == {t \in BagToSet(threads) : t.pc \in {"clone", "install", "push"}}

\* The step is a worker's assignment of a children map to a node.
InstallStep == Running /\ move_tree' # move_tree

\* C27: under any interleaving of the parallel workers no two workers hold
\* the same target location and no frontier entry names a location a worker
\* holds, so that a popped entry is expanded once; and at the moment a worker
\* installs children, the children map of its target node is empty and the
\* assignment changes nothing else in the tree: no existing subtree is
\* discarded.
C27_NoSubtreeIsOverwritten ==
    [][/\ \A t \in Holding' :
             /\ CopiesIn(t, threads') = 1
             /\ \A u \in Holding' : u.location = t.location => u = t
             /\ \A x \in BagToSet(moves') : TargetPath(x) # t.location
       /\ InstallStep =>
             \E t \in Holding :
                 LET target == go_to_location(move_tree, t.location)
                 IN  /\ t.pc = "install"
                     /\ target.err = "Ok"
                     /\ DOMAIN target.tree.moves = {}
                     /\ go_to_location(move_tree', t.location).tree.board_state
                            = target.tree.board_state
                     /\ move_tree = SetMovesAt(move_tree', t.location, <<>>)
      ]_vars

\* C27's case: a worker has installed children at a node below the root
\* while another worker holds a different node.
C27_Witness ==
    /\ Running
    /\ \E t, u \in Holding :
          /\ t.pc = "push"
          /\ t.location # <<>>
          /\ DOMAIN go_to_location(move_tree, t.location).tree.moves # {}
          /\ u.pc \in {"clone", "install"}

\* The nodes of a tree with their depths, the tree itself at the given
\* depth.
RECURSIVE NodesAt(_, _)
NodesAt(tree, depth) ==
    {[tree |-> tree, depth |-> depth]} \cup
    UNION {NodesAt(tree.moves[m], depth + 1) : m \in DOMAIN tree.moves}

\* The depths minimax is asked about.
Depths == 0 .. MaxMinDepth + 1

\* What C30 says minimax returns where it does not descend.
LeafValue(static, depth, maximizing_player) ==
    [best_move |-> <<>>,
     eval |-> IF static.variant = "MateIn"
                 \/ depth >= minimax_settings.min_depth
              THEN static
              ELSE IF maximizing_player
                   THEN [variant |-> "Numeric", value |-> INFINITY]
                   ELSE [variant |-> "Numeric", value |-> -INFINITY]]

\* C30: at a leaf, or at depth = max_depth, minimax returns no move and the
\* static evaluation unchanged if that is a MateIn value, at any depth, or
\* if depth >= min_depth; otherwise, for a Numeric static evaluation at
\* depth < min_depth, Numeric(+inf) for the maximizing player and
\* Numeric(-inf) for the minimizing one.  A mated root yields
\* MateIn(opponent, 0) and no move.
C30_LeafRule ==
    /\ \A n \in NodesAt(move_tree, 0), depth \in Depths,
          maximizing_player \in BOOLEAN :
          LET static == static_evaluation(n.tree.board_state)
              min_depth == minimax_settings.min_depth
          IN  /\ is_leaf(n.tree) =>
                     minimax(n.tree, depth, min_depth, MAX_DEPTH,
                             maximizing_player)
                         = LeafValue(static, depth, maximizing_player)
              /\ minimax(n.tree, depth, min_depth, depth, maximizing_player)
                     = LeafValue(static, depth, maximizing_player)
    /\ (Called("eval_and_best_move", "Ok") /\ is_checkmate(get_board)) =>
          /\ last.best_move = <<>>
          /\ last.eval = [variant |-> "MateIn",
                          color |-> opposite(get_board.turn),
                          counter |-> 0]

\* C30's case: minimax has been called on a tree that has a mated leaf, a
\* leaf with a Numeric static evaluation below min_depth and one at
\* min_depth or deeper.
C30_Witness ==
    /\ Called("eval_and_best_move", "Ok")
    /\ \E a, b, c \in NodesAt(move_tree, 0) :
          /\ is_leaf(a.tree) /\ is_leaf(b.tree) /\ is_leaf(c.tree)
          /\ is_checkmate(a.tree.board_state)
          /\ ~is_checkmate(b.tree.board_state)
          /\ b.depth < minimax_settings.min_depth
          /\ ~is_checkmate(c.tree.board_state)
          /\ c.depth >= minimax_settings.min_depth
          /\ c.depth >= 1

\* The two values minimax puts in the place of a static evaluation above
\* min_depth.
Sentinels == {[variant |-> "Numeric", value |-> INFINITY],
              [variant |-> "Numeric", value |-> -INFINITY]}

\* C29: the under-depth sentinel, Numeric(+inf) or Numeric(-inf), is the
\* evaluation eval_and_best_move returns only when the root itself is a
\* leaf above min_depth; not when the root has children, and in particular
\* not when all of them are leaves above min_depth.
C29_SentinelStaysInside ==
    (Called("eval_and_best_move", "Ok") /\ last.eval \in Sentinels) =>
        /\ is_leaf(move_tree)
        /\ 0 < minimax_settings.min_depth

\* The leaf the value of a node stems from: the leaf reached by following
\* the moves minimax selects, with its depth.
RECURSIVE ChosenLeaf(_, _, _)
ChosenLeaf(tree, depth, maximizing_player) ==
    LET res == minimax(tree, depth, minimax_settings.min_depth, MAX_DEPTH,
                       maximizing_player)
    IN  IF res.best_move = <<>>
        THEN [tree |-> tree, depth |-> depth]
        ELSE ChosenLeaf(tree.moves[res.best_move[1]], depth + 1,
                        ~maximizing_player)

\* The value of the node stems from the sentinel: from a leaf above
\* min_depth whose static evaluation is Numeric.
FromSentinel(tree, depth, maximizing_player) ==
    LET leaf == ChosenLeaf(tree, depth, maximizing_player)
    IN  /\ leaf.depth < minimax_settings.min_depth
        /\ ~is_checkmate(leaf.tree.board_state)

\* The value of the node stems from a leaf at min_depth or deeper.
FromMinDepth(tree, depth, maximizing_player) ==
    ChosenLeaf(tree, depth, maximizing_player).depth
        >= minimax_settings.min_depth

\* C28: for every min_depth >= 1, no node of the tree selects a child whose
\* value stems from the under-depth sentinel when another of its children
\* has a value that stems from leaves at depth >= min_depth.
C28_ExploredBranchPreferred ==
    (Called("eval_and_best_move", "Ok") /\ minimax_settings.min_depth >= 1) =>
        \A n \in NodesAt(move_tree, 0) :
            LET res == minimax(n.tree, n.depth, minimax_settings.min_depth,
                               MAX_DEPTH, MaximizingAt(n.depth))
            IN  res.best_move # <<>> =>
                    ~ /\ FromSentinel(n.tree.moves[res.best_move[1]],
                                      n.depth + 1, ~MaximizingAt(n.depth))
                      /\ \E m \in DOMAIN n.tree.moves :
                            FromMinDepth(n.tree.moves[m], n.depth + 1,
                                         ~MaximizingAt(n.depth))

\* ------------------------------------------- properties of parallel minimax
\* What eval_and_best_move returns on the tree of the state.
Sequential ==
    minimax(move_tree, 0, minimax_settings.min_depth, MAX_DEPTH,
            get_board.turn = "White")

\* parallel_eval_and_best_move(thread_count) with thread_count >= 1 has
\* returned.
ParallelReturned ==
    Called("parallel_eval_and_best_move", "Ok") /\ last.thread_count >= 1

\* C22: for every materialized tree and every thread count n >= 1,
\* parallel_eval_and_best_move(n) returns the same Eval as
\* eval_and_best_move, under every interleaving of the helper threads.
C22_ParallelEvalIsSequentialEval ==
    ParallelReturned => last.eval = Sequential.eval

\* C22's case: a call with two threads has returned on a tree whose root has
\* two expanded children, one evaluated by the spawned thread and one by the
\* calling thread.
C22_Witness ==
    /\ ParallelReturned
    /\ last.thread_count = 2
    /\ last.spawned = 1
    /\ Cardinality(DOMAIN move_tree.moves) = 2
    /\ \A m \in DOMAIN move_tree.moves : ~is_leaf(move_tree.moves[m])

\* C23: parallel_minimax chooses the move sequential minimax chooses: for
\* every tree and every n >= 1, parallel_eval_and_best_move(n) returns the
\* best move of eval_and_best_move, also when children tie on the best Eval
\* and some are evaluated by spawned threads and others by the caller.
C23_ParallelMoveIsSequentialMove ==
    ParallelReturned => last.best_move = Sequential.best_move

\* C24: during a call parallel_eval_and_best_move(n) with n >= 1 at most
\* n - 1 helper threads are spawned over the whole recursion, and the shared
\* budget never goes below 0: the budget and the threads spawned so far add
\* up to n - 1.
C24_BudgetBoundsThreads ==
    last.op = "parallel_eval_and_best_move" /\ last.thread_count >= 1 =>
        /\ last.spawned <= last.thread_count - 1
        /\ threads_left >= 0
        /\ Searching => threads_left + last.spawned = last.thread_count - 1

\* C24's case: in a call with three threads the root has spawned a thread,
\* the call in that thread has spawned the other, and the root has evaluated
\* a child itself for want of a thread.
C24_Witness ==
    /\ Searching
    /\ last.thread_count = 3
    /\ last.spawned = 2
    /\ threads_left = 0
    /\ Len(calls[<<>>].threads) = 1
    /\ calls[<<>>].sub_evals # <<>>
    /\ \E location \in DOMAIN calls : Len(location) = 2

\* C25: minimax never fails: eval_and_best_move and
\* parallel_eval_and_best_move(n) return a value without panic for every
\* tree and every n, including n = 0.
C25_MinimaxNeverFails ==
    last.op \in {"eval_and_best_move", "parallel_eval_and_best_move"} =>
        last.result # "Panic"

\* ------------------------------------------- properties of minimax, continued
\* MateIn(c, n) becomes MateIn(c, n + 1), Numeric stays.
OnePlyLater(eval) ==
    IF eval.variant = "MateIn"
    THEN [variant |-> "MateIn", color |-> eval.color,
          counter |-> eval.counter + 1]
    ELSE eval

\* What the children of a node are worth to the node: the result of each
\* child, evaluated for the other side one level deeper, one ply later.
ChildValues(tree, depth, maximizing_player) ==
    [m \in DOMAIN tree.moves |->
        OnePlyLater(minimax(tree.moves[m], depth + 1,
                            minimax_settings.min_depth, MAX_DEPTH,
                            ~maximizing_player).eval)]

\* a is at least as good as b for the player.
NotWorse(a, b, maximizing_player) ==
    Eval_cmp(a, b) # (IF maximizing_player THEN "Less" ELSE "Greater")

\* C31: at a node with children, above max_depth, minimax returns the
\* maximum (for the maximizing player) or the minimum (for the other) under
\* the Eval order of the children's results, each child evaluated with the
\* side flipped at depth + 1 and its result passed through
\* increase_mate_counter; and the move returned is the first in key order
\* among the children that have that value.
C31_BestChildInKeyOrder ==
    \A n \in NodesAt(move_tree, 0), maximizing_player \in BOOLEAN :
        ~is_leaf(n.tree) =>
            LET res == minimax(n.tree, n.depth, minimax_settings.min_depth,
                               MAX_DEPTH, maximizing_player)
                values == ChildValues(n.tree, n.depth, maximizing_player)
                best == {m \in DOMAIN values : values[m] = res.eval}
            IN  /\ best # {}
                /\ \A m \in DOMAIN values :
                      NotWorse(res.eval, values[m], maximizing_player)
                /\ \E m \in best :
                      /\ res.best_move = <<m>>
                      /\ \A k \in best : m <= k

\* C31's case: minimax has been called on a tree in which a node below the
\* root has two children that tie on the best value, a mate has been passed
\* up one ply, and the root's children differ in value.
C31_Witness ==
    /\ Called("eval_and_best_move", "Ok")
    /\ \E n \in NodesAt(move_tree, 0) :
          LET values == ChildValues(n.tree, n.depth, MaximizingAt(n.depth))
          IN  /\ n.depth >= 1
              /\ Cardinality(DOMAIN values) = 2
              /\ values[1] = values[2]
    /\ \E m \in DOMAIN move_tree.moves :
          /\ ChildValues(move_tree, 0, MaximizingAt(0))[m].variant = "MateIn"
          /\ ChildValues(move_tree, 0, MaximizingAt(0))[m].counter >= 2
    /\ \E m, k \in DOMAIN move_tree.moves :
          ChildValues(move_tree, 0, MaximizingAt(0))[m]
              # ChildValues(move_tree, 0, MaximizingAt(0))[k]

\* -------------------------------- properties of the count-bounded driver
\* The count-bounded driver has spawned its workers and not returned.
Counting == Running /\ last.op = "multi_thread_think_next_num_moves"

\* The number of workers that have completed an expansion and not yet
\* counted it.
AtCount(ts) == Copies(ts, {t \in BagToSet(ts) : t.pc = "count"})

\* C32: count-bounded termination.  While multi_thread_think_next_num_moves
\* runs, the shared counter changes only by a worker adding one for the
\* expansion it has just completed, a worker goes back to the pop only if
\* the counter it tested does not exceed num, and the workers that have left
\* their loop have done so because of the counter or of an empty frontier;
\* under fair scheduling of the workers and the joining driver the call
\* returns the engine, with every worker joined.
C32_CountBoundedTerminates ==
    /\ [][(Counting /\ Counting') =>
             /\ counter' \in {counter, counter + 1}
             /\ counter' = counter + 1 <=> AtCount(threads') = AtCount(threads) - 1
             /\ last'.expansions = counter' + AtCount(threads')
             /\ AtPop(threads') > AtPop(threads) => counter' <= last.num
             /\ \A t \in BagToSet(threads') :
                   Exited(t) =>
                       \/ t.pc = "break_counter" /\ counter' > last.num
                       \/ t.pc = "break_no_valid_moves" /\ last'.ran_empty
         ]_vars
    /\ Counting ~> (Called("multi_thread_think_next_num_moves", "Ok")
                       /\ threads = EmptyBag)

\* C32's case: the driver runs with two workers; one has left its loop
\* because of the counter while the other is still expanding a node.
C32_Witness ==
    /\ Counting
    /\ last.thread_count = 2
    /\ counter > last.num
    /\ Expanding # {}
    /\ \E t \in BagToSet(threads) : t.pc = "break_counter"

\* ------------------------------------------------ properties of the frame
\* The locations of the nodes of a tree.
RECURSIVE Locations(_)
Locations(tree) ==
    {<<>>} \cup
    UNION {{<<m>> \o l : l \in Locations(tree.moves[m])} :
              m \in DOMAIN tree.moves}

\* C33: a successful think_next_move that pops the entry (L, m) changes
\* only the children map of the node at L ++ [m]: every node of the tree
\* keeps its board, every other node keeps its children, and the new nodes
\* are children of that node.  The frontier afterwards is the frontier
\* before without the popped entry, so that the entries enqueued earlier
\* keep their raw value and depth_cost, plus exactly one entry per new child,
\* located at L ++ [m] with the depth_cost the engine is configured with.
C33_ThinkChangesOneNode ==
    [][ThinkStep =>
          LET e == last'.next_move
              target == TargetPath(e)
              children == DOMAIN go_to_location(move_tree', target).tree.moves
              rest == moves (-) SetToBag({e})
              added == moves' (-) rest
          IN  /\ target \in Locations(move_tree)
              /\ \A l \in Locations(move_tree) :
                    /\ l \in Locations(move_tree')
                    /\ go_to_location(move_tree', l).tree.board_state
                           = go_to_location(move_tree, l).tree.board_state
                    /\ l # target =>
                           DOMAIN go_to_location(move_tree', l).tree.moves
                               = DOMAIN go_to_location(move_tree, l).tree.moves
              /\ Locations(move_tree') \ Locations(move_tree)
                     = {Append(target, k) : k \in children}
              /\ CopiesIn(e, moves) >= 1
              /\ rest \sqsubseteq moves'
              /\ BagCardinality(added) = Cardinality(children)
              /\ \A x \in BagToSet(added) :
                    /\ x.location = target
                    /\ x.depth_cost = static_eval_weights.depth_cost
                    /\ x.valued_move.chess_move \in children
              /\ \A k \in children :
                    Copies(added, {x \in BagToSet(added) :
                                      x.valued_move.chess_move = k}) = 1
      ]_vars

\* C33's case: think_next_move has expanded a node two levels below the
\* root into two children, and an entry enqueued earlier, at another
\* location, is in the frontier.
C33_Witness ==
    /\ Called("think_next_move", "Ok")
    /\ Len(TargetPath(last.next_move)) = 2
    /\ Cardinality(EntriesAt(moves, TargetPath(last.next_move))) = 2
    /\ \E x \in Frontier : x.location # TargetPath(last.next_move)

\* The number of frontier entries of the heap that name the node at the
\* location.
EntriesNaming(heap, location) ==
    Copies(heap, {x \in BagToSet(heap) : TargetPath(x) = location})

\* The locations of the leaves of a tree below its root.
LeavesBelowRoot(tree) ==
    {l \in Locations(tree) \ {<<>>} : is_leaf(go_to_location(tree, l).tree)}

\* Every leaf that can be expanded is named by exactly one entry, a root
\* without children has no legal move, and the frontier is empty only when
\* every leaf of the tree is a position without legal moves.
FrontierComplete(tree, heap) ==
    /\ \A l \in LeavesBelowRoot(tree) :
          LegalMoves(go_to_location(tree, l).tree.board_state) # {} =>
              EntriesNaming(heap, l) = 1
    /\ is_leaf(tree) => LegalMoves(tree.board_state) = {}
    /\ heap = EmptyBag => FullyExplored(tree)

\* The step is a successful make_move.
CommitStep ==
    /\ last'.op = "make_move"
    /\ last'.result = "Ok"
    /\ move_tree' # move_tree

\* C34: frontier completeness.  In every state reached by Engine::new,
\* think_next_move and make_move every leaf that has not been expanded is
\* named by exactly one frontier entry: a leaf whose position has legal
\* moves always is, the root is never an unexpanded leaf, and the frontier
\* is empty only if every leaf is a position without legal moves.  No step
\* loses a node: think_next_move takes the entry of the node it expands and
\* of no other leaf, make_move keeps the entry of every leaf of the subtree
\* it commits to, and every node a step creates gets one entry.
C34_FrontierComplete ==
    /\ FrontierComplete(move_tree, moves)
    /\ [][/\ FrontierComplete(move_tree', moves')
          /\ ThinkStep =>
                \A l \in LeavesBelowRoot(move_tree') :
                    IF l \in Locations(move_tree)
                    THEN \/ l = TargetPath(last'.next_move)
                         \/ EntriesNaming(moves', l) = EntriesNaming(moves, l)
                    ELSE EntriesNaming(moves', l) = 1
          /\ CommitStep =>
                \A l \in LeavesBelowRoot(move_tree') :
                    LET former == <<last'.chess_move>> \o l
                    IN  IF former \in Locations(move_tree)
                        THEN EntriesNaming(moves', l)
                                 = EntriesNaming(moves, former)
                        ELSE EntriesNaming(moves', l) = 1
         ]_vars

\* C34's case: after expansions and a commit to an expanded child, the tree
\* has a leaf without legal moves that was expanded and has no entry, one
\* that was not and has its entry, and leaves with legal moves.
C34_Witness ==
    /\ Called("make_move", "Ok")
    /\ last.expansions = 0
    /\ \E a, b, c \in LeavesBelowRoot(move_tree) :
          /\ LegalMoves(go_to_location(move_tree, a).tree.board_state) = {}
          /\ EntriesNaming(moves, a) = 0
          /\ LegalMoves(go_to_location(move_tree, b).tree.board_state) = {}
          /\ EntriesNaming(moves, b) = 1
          /\ LegalMoves(go_to_location(move_tree, c).tree.board_state) # {}

\* ------------------------------------------------ properties of the locks
\* The thread in the call on the node at location can take a step: it
\* returns, it goes on after the spawn, or it is at a round of its loop and
\* the budget is not locked.
CallCanStep(location) ==
    \/ LoopOver(location)
    \/ Searching /\ Spawning(calls[location])
    \/ InLoop(location) /\ BudgetHolders = {}

\* C35: deadlock freedom.  In no reachable state of
\* multi_thread_think_next_num_moves,
\* multi_thread_think_next_moves_until_stop or parallel_minimax are the
\* threads stuck: as long as the call has not returned, a thread or the
\* driver can take a step, and every mutex that is held is held by a thread
\* that can go on to release it.
C35_NoDeadlock ==
    Running =>
        /\ ~Searching => ENABLED ThreadStep
        /\ Searching => \E location \in DOMAIN calls : CallCanStep(location)
        /\ engine_lock = "locked" =>
               \E t \in BagToSet(threads) : ENABLED WorkerPush(t)
        /\ \A t \in KeepGoingHolders : ENABLED WorkerLockCounter(t)
        /\ \A location \in BudgetHolders : CallCanStep(location)

\* C35's case: a call of parallel_minimax holds the budget while the call
\* in the thread it has just spawned is about to lock it.
C35_Witness ==
    /\ Searching
    /\ \E location \in BudgetHolders :
          LET child == Append(location,
                              calls[location].threads[
                                  Len(calls[location].threads)])
          IN  /\ child \in DOMAIN calls
              /\ ~calls[child].returned
              /\ calls[child].done = 0
====
